---- MODULE Spec2Model ----
(***************************************************************************)
(* dashi: the alert engine (internal/alerts/engine.go) over the repository *)
(* (internal/db/repo.go) and the schema of db.Migrate.                     *)
(*                                                                         *)
(* Time is counted in whole seconds.  A NULL timestamp is NoTime.          *)
(* The periodic drivers of App.Run share one goroutine (one select loop),  *)
(* so a collector write never runs in the middle of an Evaluate; only the  *)
(* clock moves while an Evaluate is in progress.                           *)
(***************************************************************************)
EXTENDS Integers, Sequences, FiniteSets, TLC

VARIABLES
    now,                  \* the wall clock read by e.now() and time.Now()
    rules,                \* table alert_rules, ordered by id
    services,             \* table services, keyed by id
    containers,           \* table containers, in rowid order
    host_metrics,         \* table host_metrics, in rowid order
    container_metrics,    \* table container_metrics, in rowid order
    logs,                 \* table logs, in id order
    alert_states,         \* table alert_states, keyed by (rule_id, target_fingerprint)
    alerts,               \* table alerts, in id order
    alertSeq,             \* AUTOINCREMENT counter of alerts.id
    notification_events,  \* table notification_events, in id order
    sent,                 \* the notifications handed to Engine.sendNotification, in order
    lastHost,             \* Engine.lastHost
    lastRest,             \* Engine.lastRest
    lastSvc,              \* Engine.lastSvc
    eval,                 \* position of the running Evaluate call (its locals)
    evalCount,            \* number of Evaluate calls started by this engine
    writes,               \* number of writes to the container table so far
    atBegin,              \* what the running (or last) Evaluate call found when it began
    sameList,             \* every Evaluate call so far read the same container list
    lastCall,             \* the most recent evalTarget call: arguments and outcome
    ingestor,             \* logs.Ingestor: skipSelfLogs, selfID and the keys of workers
    contexts,             \* the context handed to the latest worker of each container
    worker,               \* one log worker: runWorker, its flushLoop and their channel
    run,                  \* App.Run: the driver calls made and the one in progress
    collector,            \* collector.Service: its HostCollector (prevCPU) and the ticks made
    notify                \* notifier.Telegram: its fields, a Send and an Update under way

vars == <<now, rules, services, containers, host_metrics, container_metrics, logs,
          alert_states, alerts,
          alertSeq, notification_events, sent, lastHost, lastRest, lastSvc,
          eval, evalCount, writes, atBegin, sameList, lastCall,
          ingestor, contexts, worker, run, collector, notify>>

repoVars == <<alert_states, alerts, alertSeq, notification_events>>
engineMaps == <<lastHost, lastRest, lastSvc>>
history == <<evalCount, writes, atBegin, sameList, lastCall>>
procs == <<ingestor, contexts, worker, run, collector, notify>>

----------------------------------------------------------------------------
(* Bounds of the model *)

MaxTime == 3
MaxRestart == 1
MaxEvals == 2
MaxHostEvals == 5
MaxWrites == 3
MaxHostRows == 4
MaxSkew == 1
MaxLogs == 1
MaxRetention == 0
MaxValue == 2
MaxCounter == 2
MaxFrames == 3
MaxText == 4
MaxOpens == 3
MaxStream == 1
MaxCalls == 2
MaxTicks == 2
MaxRows == 3
MaxSends == 2
MaxUpdates == 2

ContainerIDs == {"c1", "c2"}
ServiceIDs == {"svcA", "svcB"}
RuntimeStates == {"running"}
DockerStates == {"running", "RUNNING", "exited"}
ForChoices == {0, 1}
CoolChoices == {0, 3}

NoTime == -1
NoRow == [state |-> "none"]
NoCall == [kind |-> "none"]

(* Program constants *)

SendAttempts == 3
UnavailableAfter == 60

(* part_001 79, 95, 101, 108, 112, 115, 120, 122: the capacity of the     *)
(* entry channel, the tail of the first request, the three sleeps in      *)
(* milliseconds, the overlap and the flush period in seconds, the batch.  *)
ChannelCap == 256
FirstTail == 500
OpenErrorSleep == 2000
ParseErrorSleep == 1000
StreamEndSleep == 500
Overlap == 2
FlushEvery == 2
BatchSize == 200
QueryHardMax == 1000
QueryDefault == 200
GroupHardMax == 500
GroupDefault == 100
StartLookback == 60

(* A target fingerprint that no container row carries. *)
StaleTarget == "dead-container"

(* The clock readings around the unavailability limit. *)
ClockValues == (0..MaxSkew) \cup (UnavailableAfter..(UnavailableAfter + MaxSkew + 1))

Targets == {"host"} \cup ContainerIDs \cup {StaleTarget}

----------------------------------------------------------------------------
(* Schema: the five rules db.Migrate seeds; for_seconds, cooldown_seconds  *)
(* and enabled are what Repository.UpdateRuleThresholds may have set.      *)

seedDefaultRules ==
    << [id |-> 1, name |-> "Host CPU high", target_type |-> "host",
        metric_key |-> "host_cpu_pct", operator |-> ">", threshold |-> 90],
       [id |-> 2, name |-> "Host memory high", target_type |-> "host",
        metric_key |-> "host_mem_pct", operator |-> ">", threshold |-> 90],
       [id |-> 3, name |-> "Host disk high", target_type |-> "host",
        metric_key |-> "host_disk_pct", operator |-> ">", threshold |-> 85],
       [id |-> 4, name |-> "Container unavailable", target_type |-> "container",
        metric_key |-> "container_unavailable", operator |-> ">=", threshold |-> 1],
       [id |-> 5, name |-> "Container restarted", target_type |-> "container",
        metric_key |-> "container_restarts", operator |-> ">=", threshold |-> 1] >>

RuleIDs == 1..Len(seedDefaultRules)

AlertRule(seed, forSec, cooldown, enabled) ==
    [id |-> seed.id, name |-> seed.name, target_type |-> seed.target_type,
     metric_key |-> seed.metric_key, operator |-> seed.operator,
     threshold |-> seed.threshold, for_seconds |-> forSec,
     cooldown_seconds |-> cooldown, enabled |-> enabled]

(* The rule table with the rules of `on` enabled, all with one setting. *)
UpdateRuleThresholds(on, forSec, cooldown) ==
    [i \in RuleIDs |-> AlertRule(seedDefaultRules[i], forSec, cooldown, i \in on)]

(* The host samples the collector may store. *)
HostSamples ==
    { [cpu_pct |-> 10, mem_used |-> 1, mem_total |-> 4, disk_used |-> 1, disk_total |-> 4],
      [cpu_pct |-> 95, mem_used |-> 19, mem_total |-> 20, disk_used |-> 9, disk_total |-> 10] }

----------------------------------------------------------------------------
(* Repository: each operation maps the tables (a record db) to the tables  *)
(* after it.  `fail` is the operation returning an error without writing.  *)

Tables == [alert_states |-> alert_states, alerts |-> alerts, alertSeq |-> alertSeq,
           notification_events |-> notification_events, sent |-> sent]

AlertStateRow(state, since, lastFired, lastRecovered) ==
    [state |-> state, since_ts |-> since, last_fired_ts |-> lastFired,
     last_recovered_ts |-> lastRecovered]

GetAlertState_Forgets(db, ruleID, target) == NoRow

(* repo.go 317-333 *)
GetAlertState(db, ruleID, target) == db.alert_states[<<ruleID, target>>]

UpsertAlertState(db, ruleID, target, state, since, lastFired, lastRecovered, fail) ==
    IF fail THEN db
    ELSE [db EXCEPT !.alert_states[<<ruleID, target>>] =
                        AlertStateRow(state, since, lastFired, lastRecovered)]

CreateAlert(db, ruleID, target, status, summary, started, fail) ==
    IF fail THEN [db |-> db, id |-> 0, err |-> TRUE]
    ELSE [db |-> [db EXCEPT !.alertSeq = db.alertSeq + 1,
                            !.alerts = Append(db.alerts,
                                [id |-> db.alertSeq + 1, rule_id |-> ruleID,
                                 target_fingerprint |-> target, status |-> status,
                                 started_ts |-> started, ended_ts |-> NoTime,
                                 summary |-> summary])],
          id |-> db.alertSeq + 1, err |-> FALSE]

CloseAlert(db, ruleID, target, ended, fail) ==
    IF fail THEN db
    ELSE [db EXCEPT !.alerts =
            [i \in 1..Len(db.alerts) |->
                IF /\ db.alerts[i].rule_id = ruleID
                   /\ db.alerts[i].target_fingerprint = target
                   /\ db.alerts[i].status = "firing"
                THEN [db.alerts[i] EXCEPT !.status = "recovered", !.ended_ts = ended]
                ELSE db.alerts[i]]]

(* notification_events.alert_id REFERENCES alerts(id), foreign keys on:    *)
(* the INSERT fails when no alert row has that id.                         *)
ForeignKeyOK(db, alertID) == \E i \in 1..Len(db.alerts) : db.alerts[i].id = alertID

InsertNotificationEvent(db, alertID, channel, status, attempts, lastErr, sentTs, fail) ==
    IF fail \/ ~ForeignKeyOK(db, alertID) THEN db
    ELSE [db EXCEPT !.notification_events = Append(db.notification_events,
            [alert_id |-> alertID, channel |-> channel, status |-> status,
             attempts |-> attempts, last_error |-> lastErr, sent_ts |-> sentTs])]

ListContainers == containers

HasHostMetric == Len(host_metrics) > 0

(* ORDER BY ts DESC LIMIT 1 *)
LatestHostMetric ==
    CHOOSE m \in {host_metrics[i] : i \in 1..Len(host_metrics)} :
        \A j \in 1..Len(host_metrics) : host_metrics[j].ts <= m.ts

----------------------------------------------------------------------------
(* Alert engine *)

compare_NoEquality(v, op, threshold) ==
    CASE op = ">"  -> v > threshold
      [] op = ">=" -> v > threshold
      [] op = "<"  -> v < threshold
      [] op = "<=" -> v < threshold
      [] op = "==" -> v = threshold
      [] OTHER     -> FALSE

(* engine.go 178-193 *)
compare(v, op, threshold) ==
    CASE op = ">"  -> v > threshold
      [] op = ">=" -> v >= threshold
      [] op = "<"  -> v < threshold
      [] op = "<=" -> v <= threshold
      [] op = "==" -> v = threshold
      [] OTHER     -> FALSE

(* engine.go 195-200: the first 12 characters of a longer id *)
shortTarget(id) == IF Len(id) > 12 THEN SubSeq(id, 1, 12) ELSE id

MapGet_FullWhenAbsent(m, k, zero) == IF k \in DOMAIN m THEN m[k] ELSE 100

(* A Go map read: the zero value when the key is absent. *)
MapGet(m, k, zero) == IF k \in DOMAIN m THEN m[k] ELSE zero

MapSet(m, k, v) == [x \in DOMAIN m \cup {k} |-> IF x = k THEN v ELSE m[x]]

(* Telegram.Send at the given attempt: nil (NoError) or an error.          *)
(* outcome = k in 1..SendAttempts: Send succeeds at attempt k;             *)
(* outcome = 0: it fails every time.                                       *)
NoError == ""
SendErrors == <<"telegram status 500", "telegram status 502", "telegram status 429">>

Send(attempt, outcome) == IF outcome = attempt THEN NoError ELSE SendErrors[attempt]

(* The results of the first n calls of Send, in order. *)
Tries(n, outcome) == [k \in 1..n |-> Send(k, outcome)]

(* engine.go 164-174: `attempts` calls of Send have failed so far *)
RECURSIVE sendLoop(_, _, _, _, _, _)
sendLoop(db, alertID, msg, attempts, outcome, fail) ==
    IF attempts < SendAttempts
    THEN IF Send(attempts + 1, outcome) = NoError
         THEN InsertNotificationEvent(
                [db EXCEPT !.sent = Append(db.sent,
                    [alert_id |-> alertID, msg |-> msg, attempts |-> attempts + 1,
                     delivered |-> TRUE, tries |-> Tries(attempts + 1, outcome)])],
                alertID, "telegram", "sent", attempts + 1, NoError, now, fail)
         ELSE sendLoop(db, alertID, msg, attempts + 1, outcome, fail)
    ELSE InsertNotificationEvent(
            [db EXCEPT !.sent = Append(db.sent,
                [alert_id |-> alertID, msg |-> msg, attempts |-> attempts,
                 delivered |-> FALSE, tries |-> Tries(attempts, outcome)])],
            alertID, "telegram", "failed", attempts, Send(attempts, outcome), NoTime,
            fail)

sendNotification_EventPerAttempt(db, alertID, msg, outcome, fail) ==
    LET n    == IF outcome = 0 THEN SendAttempts ELSE outcome
        told == [db EXCEPT !.sent = Append(db.sent,
                    [alert_id |-> alertID, msg |-> msg, attempts |-> n,
                     delivered |-> outcome # 0, tries |-> Tries(n, outcome)])]
    IN [told EXCEPT !.notification_events = db.notification_events \o
            [k \in 1..n |->
                [alert_id |-> alertID, channel |-> "telegram",
                 status |-> IF Send(k, outcome) = NoError THEN "sent" ELSE "failed",
                 attempts |-> k, last_error |-> Send(k, outcome),
                 sent_ts |-> IF Send(k, outcome) = NoError THEN now ELSE NoTime]]]

(* engine.go 161-176 *)
sendNotification(db, alertID, msg, outcome, fail) ==
    sendLoop(db, alertID, msg, 0, outcome, fail)

Message(kind, rule, targetLabel) ==
    [kind |-> kind, rule |-> rule.name, target |-> targetLabel]

withinCooldown_Inverted(rule, lastFired) ==
    lastFired # NoTime /\ now - lastFired > rule.cooldown_seconds

(* engine.go 120 and 136: a firing transition falls inside the cooldown *)
withinCooldown(rule, lastFired) ==
    lastFired # NoTime /\ now - lastFired < rule.cooldown_seconds

forElapsed_Inverted(rule, since) == now - since <= rule.for_seconds

(* engine.go 135: the pending time of the rule has passed *)
forElapsed(rule, since) == now - since >= rule.for_seconds

fireAlert_NoNotification(db, ruleID, targetKey, targetLabel, rule, since, fault, outcome) ==
    LET msg == Message("ALERT", rule, targetLabel)
        c   == CreateAlert(db, ruleID, targetKey, "firing", msg, now, fault = "create")
    IN UpsertAlertState(c.db, ruleID, targetKey, "FIRING", since, now, NoTime,
                        fault = "upsert")

(* engine.go 124-129 and 140-145: CreateAlert, sendNotification when it    *)
(* succeeded, then the FIRING state row with the given since_ts            *)
fireAlert(db, ruleID, targetKey, targetLabel, rule, since, fault, outcome) ==
    LET msg == Message("ALERT", rule, targetLabel)
        c   == CreateAlert(db, ruleID, targetKey, "firing", msg, now, fault = "create")
        d   == IF ~c.err
               THEN sendNotification(c.db, c.id, msg, outcome, fault = "event")
               ELSE c.db
    IN UpsertAlertState(d, ruleID, targetKey, "FIRING", since, now, NoTime,
                        fault = "upsert")

recoverTarget_AlwaysNotifies(db, ruleID, targetKey, targetLabel, rule, state, lastFired, fault, outcome) ==
    LET closed == CloseAlert(db, ruleID, targetKey, now, fault = "close")
        told   == sendNotification(closed, 0, Message("RECOVERY", rule, targetLabel),
                                   outcome, fault = "event")
    IN UpsertAlertState(told, ruleID, targetKey, "OK", now, lastFired, now,
                        fault = "upsert")

(* engine.go 152-157: CloseAlert, the RECOVERY message, the OK state row *)
recoverTarget(db, ruleID, targetKey, targetLabel, rule, state, lastFired, fault, outcome) ==
    LET closed == CloseAlert(db, ruleID, targetKey, now, fault = "close")
        told   == IF state = "FIRING"
                  THEN sendNotification(closed, 0,
                           Message("RECOVERY", rule, targetLabel),
                           outcome, fault = "event")
                  ELSE closed
    IN UpsertAlertState(told, ruleID, targetKey, "OK", now, lastFired, now,
                        fault = "upsert")

evalTarget(db, ruleID, targetKey, targetLabel, rule, value, fault, outcome) ==
    LET shouldFire == compare(value, rule.operator, rule.threshold)
        row        == GetAlertState(db, ruleID, targetKey)
        state      == IF row = NoRow THEN "OK" ELSE row.state
        since      == IF row = NoRow THEN now ELSE row.since_ts
        lastFired  == IF row = NoRow THEN NoTime ELSE row.last_fired_ts
    IN
    IF fault = "get" THEN db
    ELSE IF shouldFire THEN
        IF state = "OK" THEN
            IF rule.for_seconds <= 0 THEN
                IF withinCooldown(rule, lastFired)
                THEN UpsertAlertState(db, ruleID, targetKey, "COOLDOWN", now,
                                      lastFired, NoTime, fault = "upsert")
                ELSE fireAlert(db, ruleID, targetKey, targetLabel, rule, now,
                               fault, outcome)
            ELSE UpsertAlertState(db, ruleID, targetKey, "PENDING", now,
                                  lastFired, NoTime, fault = "upsert")
        ELSE IF state = "PENDING" /\ forElapsed(rule, since) THEN
            IF withinCooldown(rule, lastFired)
            THEN UpsertAlertState(db, ruleID, targetKey, "COOLDOWN", now,
                                  lastFired, NoTime, fault = "upsert")
            ELSE fireAlert(db, ruleID, targetKey, targetLabel, rule, since,
                           fault, outcome)
        ELSE db
    ELSE IF state \in {"FIRING", "PENDING", "COOLDOWN"} THEN
        recoverTarget(db, ruleID, targetKey, targetLabel, rule, state, lastFired,
                      fault, outcome)
    ELSE db

----------------------------------------------------------------------------
(* Engine.Evaluate: the loop over the rules and the container list.  One   *)
(* step of the model is one evalTarget call together with the bookkeeping  *)
(* of its loop iteration.                                                  *)

Idle(list) == [pc |-> "idle", ri |-> 0, ci |-> 0, loopNow |-> 0, containers |-> list]

(* The loop position (ri, ci) makes an evalTarget call. *)
Calls(ri, ci, list) ==
    /\ rules[ri].enabled
    /\ \/ rules[ri].target_type = "host" /\ ci = 1
       \/ /\ rules[ri].target_type = "container"
          /\ rules[ri].metric_key \in {"container_unavailable", "container_restarts"}
          /\ ci <= Len(list)

(* The first position at or after (ri, ci) that makes a call; <<0, 0>>     *)
(* when the loop over the rules ends first.                                *)
RECURSIVE Seek(_, _, _)
Seek(ri, ci, list) ==
    IF ri > Len(rules) THEN <<0, 0>>
    ELSE IF Calls(ri, ci, list) THEN <<ri, ci>>
    ELSE Seek(ri + 1, 1, list)

Position_EndsEvaluate(pos, list) ==
    IF pos = <<1, 1>> THEN [Idle(list) EXCEPT !.pc = "loop", !.ri = 1, !.ci = 1]
    ELSE Idle(list)

(* The locals of Evaluate at the loop position pos *)
Position(pos, list) ==
    IF pos = <<0, 0>> THEN Idle(list)
    ELSE [pc |-> "loop", ri |-> pos[1], ci |-> pos[2],
          loopNow |-> IF rules[pos[1]].metric_key = "container_unavailable"
                      THEN (IF pos[2] = 1 THEN now ELSE eval.loopNow)
                      ELSE 0,
          containers |-> list]

HostPct(used, total) == (used * 100) \div total

(* engine.go 38-47: lastHost after a successful LatestHostMetric *)
UpdateLastHost(m) ==
    LET a == MapSet(lastHost, "host_cpu_pct", m.cpu_pct)
        b == IF m.mem_total > 0
             THEN MapSet(a, "host_mem_pct", HostPct(m.mem_used, m.mem_total))
             ELSE a
    IN IF m.disk_total > 0
       THEN MapSet(b, "host_disk_pct", HostPct(m.disk_used, m.disk_total))
       ELSE b

(* strings.EqualFold over ASCII letters: equal after folding the case of   *)
(* every character.                                                       *)
UpperCase == "ABCDEFGHIJKLMNOPQRSTUVWXYZ"
LowerCase == "abcdefghijklmnopqrstuvwxyz"

FoldChar(ch) ==
    IF \E i \in 1..Len(UpperCase) : SubSeq(UpperCase, i, i) = ch
    THEN LET i == CHOOSE k \in 1..Len(UpperCase) : SubSeq(UpperCase, k, k) = ch
         IN SubSeq(LowerCase, i, i)
    ELSE ch

EqualFold(a, b) ==
    /\ Len(a) = Len(b)
    /\ \A i \in 1..Len(a) : FoldChar(SubSeq(a, i, i)) = FoldChar(SubSeq(b, i, i))

UnavailableValue_AtLeast(c, t) ==
    IF EqualFold(c.status, "running") /\ t - c.last_seen_at >= UnavailableAfter
    THEN 1 ELSE 0

(* engine.go 61-64 *)
UnavailableValue(c, t) ==
    IF EqualFold(c.status, "running") /\ t - c.last_seen_at > UnavailableAfter
    THEN 1 ELSE 0

RestartedValue_CounterOnly(c) ==
    IF c.id \in DOMAIN lastRest /\ c.restart_count > lastRest[c.id] THEN 1 ELSE 0

(* engine.go 70-79 *)
RestartedValue(c) ==
    LET seen == c.id \in DOMAIN lastRest
        byCounter == seen /\ c.restart_count > lastRest[c.id]
        byService == c.service_id \in DOMAIN lastSvc /\ lastSvc[c.service_id] # c.id
    IN IF byCounter \/ byService THEN 1 ELSE 0

(* The repository call of one evalTarget call that returns an error, and   *)
(* the outcome of Telegram.Send (see sendLoop): the evaluations modelled   *)
(* have a working database, and a notifier that delivers at the first      *)
(* attempt or not at all.                                                  *)
RepoFaults == {"none", "get", "create", "close", "upsert", "event"}
NoFaults == {"none"}
SendOutcomes == {0, 1}
AllOutcomes == 0..SendAttempts
Delivered == {1}

(* engine.go 32-49: Evaluate is called; `count` is the number of calls     *)
(* recorded after this one.                                                *)
EvaluateCounted(limit, count) ==
    /\ eval.pc = "idle"
    /\ evalCount < limit
    /\ LET list == ListContainers
       IN /\ lastHost' = IF HasHostMetric THEN UpdateLastHost(LatestHostMetric)
                         ELSE lastHost
          /\ eval' = Position(Seek(1, 1, list), list)
          /\ atBegin' = [lastRest |-> lastRest, lastSvc |-> lastSvc,
                          alerts |-> Len(alerts)]
          /\ sameList' = (evalCount = 0 \/ (sameList /\ list = eval.containers))
    /\ evalCount' = count
    /\ UNCHANGED <<procs, now, rules, container_metrics, logs,
                   services, containers, host_metrics, repoVars, sent,
                   lastRest, lastSvc, writes, lastCall>>

EvaluateBegin(limit) == EvaluateCounted(limit, evalCount + 1)

EvalStep(faults, outcomes) ==
    /\ eval.pc = "loop"
    /\ \E fault \in faults, outcome \in outcomes :
        LET r     == rules[eval.ri]
            list  == eval.containers
            isHost == r.target_type = "host"
            c     == list[eval.ci]
            key   == IF isHost THEN "host" ELSE c.id
            value == IF isHost THEN MapGet(lastHost, r.metric_key, 0)
                     ELSE IF r.metric_key = "container_unavailable"
                          THEN UnavailableValue(c, eval.loopNow)
                          ELSE RestartedValue(c)
            db    == evalTarget(Tables, r.id, key, shortTarget(key), r, value,
                                fault, outcome)
            clean == evalTarget(Tables, r.id, key, shortTarget(key), r, value,
                                "none", outcome)
        IN /\ alert_states' = db.alert_states
           /\ alerts' = db.alerts
           /\ alertSeq' = db.alertSeq
           /\ notification_events' = db.notification_events
           /\ sent' = db.sent
           /\ IF ~isHost /\ r.metric_key = "container_restarts"
              THEN /\ lastSvc' = MapSet(lastSvc, c.service_id, c.id)
                   /\ lastRest' = MapSet(lastRest, c.id, c.restart_count)
              ELSE UNCHANGED <<lastSvc, lastRest>>
           /\ lastCall' = [kind |-> "evalTarget", rule |-> r.id, target |-> key,
                           value |-> value, at |-> now,
                           row |-> GetAlertState(Tables, r.id, key),
                           fault |-> IF db = clean THEN "none" ELSE fault]
           /\ eval' = Position(Seek(eval.ri, eval.ci + 1, list), list)
    /\ UNCHANGED <<procs, now, rules, container_metrics, logs,
                   services, containers, host_metrics, lastHost,
                   evalCount, writes, atBegin, sameList>>

----------------------------------------------------------------------------
(* The writes of the collector tick (Service.Tick) and the clock *)

Tick ==
    /\ now < MaxTime
    /\ now' = now + 1
    /\ UNCHANGED <<procs, rules, container_metrics, logs,
                   services, containers, host_metrics, repoVars, sent,
                   engineMaps, eval, history>>

(* The clock moving on by more than a second at a time. *)
Advance ==
    /\ \E t \in ClockValues : t > now /\ now' = t
    /\ UNCHANGED <<procs, rules, container_metrics, logs,
                   services, containers, host_metrics, repoVars, sent,
                   engineMaps, eval, history>>

RowIndex(id) == CHOOSE i \in 1..Len(containers) : containers[i].id = id

HasRow(id) == \E i \in 1..Len(containers) : containers[i].id = id

UpsertServiceAndContainer_ResetsFirstSeen(svc, id, status, restartCount) ==
    /\ eval.pc = "idle"
    /\ writes < MaxWrites
    /\ writes' = writes + 1
    /\ services' = [services EXCEPT ![svc] =
            IF services[svc] = NoRow
            THEN [state |-> "row", first_seen_at |-> now, last_seen_at |-> now,
                  status |-> status]
            ELSE [services[svc] EXCEPT !.first_seen_at = now, !.last_seen_at = now,
                                       !.status = status]]
    /\ LET row == [id |-> id, service_id |-> svc, status |-> status,
                   last_seen_at |-> now, restart_count |-> restartCount]
       IN containers' = IF HasRow(id)
                        THEN [containers EXCEPT ![RowIndex(id)] = row]
                        ELSE Append(containers, row)
    /\ lastCall' = [kind |-> "UpsertServiceAndContainer", svc |-> svc, id |-> id,
                    at |-> now]
    /\ UNCHANGED <<procs, now, rules, container_metrics, logs,
                   host_metrics, repoVars, sent, engineMaps, eval,
                   evalCount, atBegin, sameList>>

(* repo.go 30-44 *)
UpsertServiceAndContainer(svc, id, status, restartCount) ==
    /\ eval.pc = "idle"
    /\ writes < MaxWrites
    /\ writes' = writes + 1
    /\ services' = [services EXCEPT ![svc] =
            IF services[svc] = NoRow
            THEN [state |-> "row", first_seen_at |-> now, last_seen_at |-> now,
                  status |-> status]
            ELSE [services[svc] EXCEPT !.last_seen_at = now, !.status = status]]
    /\ LET row == [id |-> id, service_id |-> svc, status |-> status,
                   last_seen_at |-> now, restart_count |-> restartCount]
       IN containers' = IF HasRow(id)
                        THEN [containers EXCEPT ![RowIndex(id)] = row]
                        ELSE Append(containers, row)
    /\ lastCall' = [kind |-> "UpsertServiceAndContainer", svc |-> svc, id |-> id,
                    at |-> now]
    /\ UNCHANGED <<procs, now, rules, container_metrics, logs,
                   host_metrics, repoVars, sent, engineMaps, eval,
                   evalCount, atBegin, sameList>>

MarkMissingContainers_AllButFirst(seenIDs) ==
    /\ eval.pc = "idle"
    /\ writes < MaxWrites
    /\ writes' = writes + 1
    /\ containers' = [i \in 1..Len(containers) |->
            IF i > 1 THEN [containers[i] EXCEPT !.status = "missing"]
            ELSE containers[i]]
    /\ containers' # containers
    /\ lastCall' = [kind |-> "MarkMissingContainers", seen |-> seenIDs]
    /\ UNCHANGED <<procs, now, rules, container_metrics, logs,
                   services, host_metrics, repoVars, sent, engineMaps,
                   eval, evalCount, atBegin, sameList>>

(* repo.go 46-60; a call that changes no row is a stuttering step *)
MarkMissingContainers(seenIDs) ==
    /\ eval.pc = "idle"
    /\ writes < MaxWrites
    /\ writes' = writes + 1
    /\ containers' = [i \in 1..Len(containers) |->
            IF seenIDs = {}
            THEN (IF containers[i].status # "missing"
                  THEN [containers[i] EXCEPT !.status = "missing"]
                  ELSE containers[i])
            ELSE (IF containers[i].id \notin seenIDs /\ containers[i].status # "missing"
                  THEN [containers[i] EXCEPT !.status = "missing"]
                  ELSE containers[i])]
    /\ containers' # containers
    /\ lastCall' = [kind |-> "MarkMissingContainers", seen |-> seenIDs]
    /\ UNCHANGED <<procs, now, rules, container_metrics, logs,
                   services, host_metrics, repoVars, sent, engineMaps,
                   eval, evalCount, atBegin, sameList>>

InsertHostMetric(m) ==
    /\ eval.pc = "idle"
    /\ Len(host_metrics) < MaxHostRows
    /\ \A i \in 1..Len(host_metrics) : host_metrics[i].ts < now
    /\ host_metrics' = Append(host_metrics,
            [ts |-> now, cpu_pct |-> m.cpu_pct, mem_used |-> m.mem_used,
             mem_total |-> m.mem_total, disk_used |-> m.disk_used,
             disk_total |-> m.disk_total])
    /\ UNCHANGED <<procs, now, rules, container_metrics, logs,
                   services, containers, repoVars, sent, engineMaps,
                   eval, history>>

(* repo.go 79-99: one transaction; the rows need their service and        *)
(* container rows (foreign keys)                                          *)
InsertLogsUpTo(entries, max) ==
    /\ eval.pc = "idle"
    /\ Len(entries) > 0
    /\ Len(logs) + Len(entries) <= max
    /\ \A k \in 1..Len(entries) :
            services[entries[k].service_id] # NoRow /\ HasRow(entries[k].container_id)
    /\ logs' = logs \o entries
    /\ UNCHANGED <<procs, now, rules, container_metrics, services, containers, host_metrics,
                   repoVars, sent, engineMaps, eval, history>>

InsertLogs(entries) == InsertLogsUpTo(entries, MaxLogs)

NotOlder(rows, cutoff) == SelectSeq(rows, LAMBDA row : ~(row.ts < cutoff))

DeleteOlderThan_ByStatusOnly(cutoff) ==
    /\ eval.pc = "idle"
    /\ host_metrics' = NotOlder(host_metrics, cutoff)
    /\ container_metrics' = NotOlder(container_metrics, cutoff)
    /\ logs' = NotOlder(logs, cutoff)
    /\ alerts' = SelectSeq(alerts, LAMBDA a : ~(a.status = "recovered"))
    /\ notification_events' = SelectSeq(notification_events,
            LAMBDA e : \E k \in 1..Len(alerts') : alerts'[k].id = e.alert_id)
    /\ lastCall' = [kind |-> "DeleteOlderThan", cutoff |-> cutoff]
    /\ UNCHANGED <<procs, now, rules, services, containers, alert_states, alertSeq, sent,
                   engineMaps, eval, evalCount, writes, atBegin, sameList>>

(* repo.go 503-518; the notification events of a deleted alert go with it  *)
(* (ON DELETE CASCADE)                                                     *)
DeleteOlderThan(cutoff) ==
    /\ eval.pc = "idle"
    /\ host_metrics' = NotOlder(host_metrics, cutoff)
    /\ container_metrics' = NotOlder(container_metrics, cutoff)
    /\ logs' = NotOlder(logs, cutoff)
    /\ alerts' = SelectSeq(alerts,
            LAMBDA a : ~(a.started_ts < cutoff /\ a.status = "recovered"))
    /\ notification_events' = SelectSeq(notification_events,
            LAMBDA e : \E k \in 1..Len(alerts') : alerts'[k].id = e.alert_id)
    /\ lastCall' = [kind |-> "DeleteOlderThan", cutoff |-> cutoff]
    /\ UNCHANGED <<procs, now, rules, services, containers, alert_states, alertSeq, sent,
                   engineMaps, eval, evalCount, writes, atBegin, sameList>>

(* A firing alert written through the repository for a pair, before the    *)
(* engine's first Evaluate: CreateAlert, then the FIRING state row.        *)
CreateFiringAlert(ruleID, target) ==
    /\ eval.pc = "idle"
    /\ evalCount = 0
    /\ alertSeq = 0
    /\ LET c  == CreateAlert(Tables, ruleID, target, "firing",
                             [kind |-> "ALERT", rule |-> rules[ruleID].name,
                              target |-> target], now, FALSE)
           db == UpsertAlertState(c.db, ruleID, target, "FIRING", now, now, NoTime,
                                  FALSE)
       IN /\ alert_states' = db.alert_states
          /\ alerts' = db.alerts
          /\ alertSeq' = db.alertSeq
    /\ UNCHANGED <<procs, now, rules, container_metrics, logs,
                   services, containers, host_metrics,
                   notification_events, sent, engineMaps, eval, history>>

----------------------------------------------------------------------------

(* The container ids the Docker daemon lists, and the host names the      *)
(* program can run under: none, or the short id of the first container.   *)
DockerIDs == {"c1f00d", "c2f00d", "c3f00d"}
HostNames == {"", "c1"}

(* part_001 27-30 *)
NewIngestor(skipSelfLogs, hostname) ==
    [skipSelfLogs |-> skipSelfLogs, selfID |-> hostname, workers |-> {}]

NoWorker == [pc |-> "none"]

(* host.go 25 and app.js 117-119: no CPU snapshot yet *)
NewHostCollector == [prevCPU |-> <<>>]
NewService == [host |-> NewHostCollector, ticks |-> 0]
NotRunning == [pc |-> "none"]

(* telegram.go 19-25, with no Send and no Update under way *)
NewTelegram(token, chatID) ==
    [Token |-> token, ChatID |-> chatID,
     send |-> [pc |-> "none"], update |-> [pc |-> "none"], updates |-> 0,
     posted |-> <<>>]

(* No worker and no driver has been started. *)
InitProcs ==
    /\ ingestor = NewIngestor(FALSE, "")
    /\ contexts = [id \in DockerIDs |-> "none"]
    /\ worker = NoWorker
    /\ run = NotRunning
    /\ collector = NewService
    /\ notify = NewTelegram("", "")

(* A new database and a new engine. *)
InitStore(enabledSets, forChoices, coolChoices) ==
    /\ now = 0
    /\ \E on \in enabledSets, f \in forChoices, cd \in coolChoices :
            rules = UpdateRuleThresholds(on, f, cd)
    /\ services = [s \in ServiceIDs |-> NoRow]
    /\ containers = <<>>
    /\ host_metrics = <<>>
    /\ container_metrics = <<>>
    /\ logs = <<>>
    /\ alert_states = [p \in RuleIDs \X Targets |-> NoRow]
    /\ alerts = <<>>
    /\ alertSeq = 0
    /\ notification_events = <<>>
    /\ sent = <<>>
    /\ lastHost = <<>>
    /\ lastRest = <<>>
    /\ lastSvc = <<>>
    /\ eval = Idle(<<>>)
    /\ evalCount = 0
    /\ writes = 0
    /\ atBegin = [lastRest |-> <<>>, lastSvc |-> <<>>, alerts |-> 0]
    /\ sameList = TRUE

(* lastCall is left to the caller. *)
InitTables(enabledSets, forChoices, coolChoices) ==
    /\ InitStore(enabledSets, forChoices, coolChoices)
    /\ InitProcs

InitWith(enabledSets, forChoices, coolChoices) ==
    /\ InitTables(enabledSets, forChoices, coolChoices)
    /\ lastCall = NoCall

Upserts ==
    \E svc \in ServiceIDs, id \in ContainerIDs, st \in RuntimeStates,
       rc \in 0..MaxRestart : UpsertServiceAndContainer(svc, id, st, rc)

MarkMissing == \E seen \in SUBSET ContainerIDs : MarkMissingContainers(seen)

HostMetrics == \E m \in HostSamples : InsertHostMetric(m)

(* The engine over a host whose samples change: the host CPU rule. *)
InitHost == InitWith({{1}}, ForChoices, CoolChoices)

NextHost ==
    \/ Tick
    \/ EvaluateBegin(MaxHostEvals)
    \/ EvalStep(NoFaults, SendOutcomes)
    \/ HostMetrics

SpecHost == InitHost /\ [][NextHost]_vars

(* The engine over a changing container table, the clock standing still   *)
(* (as with the injected clock of the engine's tests): the restart rule   *)
(* with for_seconds = 0 and cooldown_seconds = 0.                         *)
InitRestarts == InitWith({{5}}, {0}, {0})

NextRestarts ==
    \/ EvaluateBegin(MaxEvals)
    \/ EvalStep(NoFaults, SendOutcomes)
    \/ Upserts
    \/ MarkMissing

SpecRestarts == InitRestarts /\ [][NextRestarts]_vars

(* The restart rule over a database that already holds a firing alert. *)
FiringAlerts ==
    \E r \in RuleIDs, t \in ContainerIDs \cup {StaleTarget} :
        rules[r].enabled /\ CreateFiringAlert(r, t)

InitStale == InitWith({{5}}, {0}, {0})

NextStale ==
    \/ FiringAlerts
    \/ EvaluateBegin(MaxEvals)
    \/ EvalStep(NoFaults, SendOutcomes)
    \/ Upserts

SpecStale == InitStale /\ [][NextStale]_vars

(* The unavailability rule over a container last seen at different times  *)
(* and in different states.                                               *)
UpsertsSeen ==
    \E st \in DockerStates : UpsertServiceAndContainer("svcA", "c1", st, 0)

InitUnavailable == InitWith({{4}}, {0}, {0})

(* The value is computed from the row and the clock of the call alone:   *)
(* one Evaluate call over every history of the row.                      *)
NextUnavailable ==
    \/ Advance
    \/ EvaluateBegin(1)
    \/ EvalStep(NoFaults, SendOutcomes)
    \/ UpsertsSeen
    \/ MarkMissing

SpecUnavailable == InitUnavailable /\ [][NextUnavailable]_vars

(* A notifier that delivers at the first, second or third attempt or not  *)
(* at all, under the host CPU rule and the restart rule over the          *)
(* containers of one service.                                             *)
UpsertsShared ==
    \E id \in ContainerIDs : UpsertServiceAndContainer("svcA", id, "running", 0)

InitNotify == InitWith({{1, 5}}, {0}, {0})

NextNotify ==
    \/ EvaluateBegin(MaxEvals)
    \/ EvalStep(NoFaults, AllOutcomes)
    \/ HostMetrics
    \/ UpsertsShared

SpecNotify == InitNotify /\ [][NextNotify]_vars

(* Retention over the host CPU rule's alerts and the time series of one   *)
(* container.                                                             *)
(* One collector tick that finds the container c1 of service svcA running: *)
(* the host sample, the container row and its metric row.                 *)
ServiceTick(m) ==
    /\ eval.pc = "idle"
    /\ Len(host_metrics) < MaxHostRows
    /\ \A i \in 1..Len(host_metrics) : host_metrics[i].ts < now
    /\ host_metrics' = Append(host_metrics,
            [ts |-> now, cpu_pct |-> m.cpu_pct, mem_used |-> m.mem_used,
             mem_total |-> m.mem_total, disk_used |-> m.disk_used,
             disk_total |-> m.disk_total])
    /\ services' = [services EXCEPT !["svcA"] =
            IF services["svcA"] = NoRow
            THEN [state |-> "row", first_seen_at |-> now, last_seen_at |-> now,
                  status |-> "running"]
            ELSE [services["svcA"] EXCEPT !.last_seen_at = now, !.status = "running"]]
    /\ LET row == [id |-> "c1", service_id |-> "svcA", status |-> "running",
                   last_seen_at |-> now, restart_count |-> 0]
       IN containers' = IF HasRow("c1")
                        THEN [containers EXCEPT ![RowIndex("c1")] = row]
                        ELSE Append(containers, row)
    /\ container_metrics' = Append(container_metrics, [ts |-> now, container_id |-> "c1"])
    /\ UNCHANGED <<procs, now, rules, logs, repoVars, sent, engineMaps, eval, history>>

ServiceTicks == \E m \in HostSamples : ServiceTick(m)

LogBatches ==
    InsertLogs(<< [ts |-> now, service_id |-> "svcA", container_id |-> "c1",
                   stream |-> "stdout"] >>)

(* retention.Service.Run: the cutoff is the retention time before now *)
Retention == \E cutoff \in (now - MaxRetention)..now : DeleteOlderThan(cutoff)

InitRetention == InitWith({{1}}, {0}, {0})

(* Three Evaluate calls let an alert fire, recover and fire again. *)
NextRetention ==
    \/ Tick
    \/ ServiceTicks
    \/ EvaluateBegin(3)
    \/ EvalStep(NoFaults, Delivered)
    \/ LogBatches
    \/ Retention

SpecRetention == InitRetention /\ [][NextRetention]_vars

(* compare applied to values and thresholds around each other, under the  *)
(* five operators and strings that are none of them.                      *)
Values == (0 - MaxValue)..MaxValue
Operators == {">", ">=", "<", "<=", "==", "!=", "=>", ""}

CompareCall(v, op, threshold) ==
    /\ lastCall' = [kind |-> "compare", v |-> v, op |-> op, threshold |-> threshold,
                    result |-> compare(v, op, threshold)]
    /\ UNCHANGED <<procs, now, rules, container_metrics, logs, services, containers,
                   host_metrics, repoVars, sent, engineMaps, eval, evalCount, writes,
                   atBegin, sameList>>

InitCompare == InitWith({{}}, {0}, {0})

NextCompare == \E v \in Values, op \in Operators, t \in Values : CompareCall(v, op, t)

SpecCompare == InitCompare /\ [][NextCompare]_vars

(* docker.NormalizeStats (the CPU part) applied to counters that advance,  *)
(* stand still or go backwards.  The counters are unsigned and wrap at    *)
(* 2^CounterBits (64 in the program); a percentage is the exact fraction  *)
(* num/den.                                                               *)
CounterBits == 16
Wrap == 2 ^ CounterBits

Counters == 0..MaxCounter

StatsInputs ==
    [system_cpu : Counters, presystem_cpu : Counters, cpu_total : Counters,
     precpu_total : Counters, online_cpus : 0..2, percpu : {0, 2}]

(* uint64 subtraction *)
Sub(a, b) == (a - b + Wrap) % Wrap

Zero == [num |-> 0, den |-> 1]

(* normalize.go 5-19 *)
NormalizeStats(st) ==
    LET sysDelta == Sub(st.system_cpu, st.presystem_cpu)
        cpuDelta == Sub(st.cpu_total, st.precpu_total)
        cpus     == IF st.online_cpus = 0
                    THEN (IF st.percpu = 0 THEN 1 ELSE st.percpu)
                    ELSE st.online_cpus
    IN [cpus |-> cpus,
        cpu_pct |-> IF sysDelta > 0 /\ cpuDelta >= 0
                    THEN [num |-> cpuDelta * cpus * 100, den |-> sysDelta]
                    ELSE Zero]

NormalizeCall ==
    /\ lastCall.kind = "Stats"
    /\ lastCall' = [kind |-> "NormalizeStats", stats |-> lastCall.stats,
                    metric |-> NormalizeStats(lastCall.stats)]
    /\ UNCHANGED <<procs, now, rules, container_metrics, logs, services, containers,
                   host_metrics, repoVars, sent, engineMaps, eval, evalCount, writes,
                   atBegin, sameList>>

InitNormalize ==
    /\ InitTables({{}}, {0}, {0})
    /\ \E st \in StatsInputs : lastCall = [kind |-> "Stats", stats |-> st]

NextNormalize == NormalizeCall

SpecNormalize == InitNormalize /\ [][NextNormalize]_vars

(* logs.ParseDockerStream on byte streams.  A byte is its code; a stream   *)
(* is a sequence of bytes.                                                *)
NUL == 0
LF == 10
CR == 13
SP == 32
LetterA == 97

IsSpace(b) == b \in {9, LF, 11, 12, CR, SP}

RECURSIVE TrimLeft(_)
TrimLeft(b) ==
    IF b # <<>> /\ IsSpace(Head(b)) THEN TrimLeft(Tail(b)) ELSE b

RECURSIVE TrimRight(_)
TrimRight(b) ==
    IF b # <<>> /\ IsSpace(b[Len(b)]) THEN TrimRight(SubSeq(b, 1, Len(b) - 1)) ELSE b

(* strings.TrimSpace *)
TrimSpace(b) == TrimRight(TrimLeft(b))

NotNUL(b) == b # NUL

MaxMessage == 4000

(* parser.go 96-104; every byte sequence here is valid UTF-8 *)
sanitizeMessage(msg) ==
    LET m == TrimSpace(SelectSeq(TrimSpace(msg), NotNUL))
    IN IF Len(m) > MaxMessage THEN SubSeq(m, 1, MaxMessage) ELSE m

(* The position of the first byte c of b, 0 if there is none. *)
RECURSIVE IndexFrom(_, _, _)
IndexFrom(b, c, i) ==
    IF i > Len(b) THEN 0
    ELSE IF b[i] = c THEN i ELSE IndexFrom(b, c, i + 1)

Index(b, c) == IndexFrom(b, c, 1)

(* The shortest RFC3339 timestamp, 2006-01-02T15:04:05Z, has 20 bytes: a  *)
(* shorter first token is not split off the message.                      *)
ShortestTimestamp == 20

(* parser.go 63-80: the entry sent to the channel (ts and level apart) *)
emitEntry(raw, stream, serviceID, containerID) ==
    LET trimmed == TrimSpace(raw)
        sp      == Index(trimmed, SP)
        msg     == IF sp > ShortestTimestamp
                   THEN SubSeq(trimmed, sp + 1, Len(trimmed))
                   ELSE trimmed
    IN [service_id |-> serviceID, container_id |-> containerID,
        stream |-> stream, message |-> sanitizeMessage(msg)]

(* bufio.ScanLines: a trailing carriage return is dropped *)
dropCR(line) ==
    IF line # <<>> /\ line[Len(line)] = CR THEN SubSeq(line, 1, Len(line) - 1) ELSE line

(* The tokens bufio.Scanner yields for the rest of the stream. *)
RECURSIVE ScanLines(_)
ScanLines(b) ==
    IF b = <<>> THEN <<>>
    ELSE LET i == Index(b, LF)
         IN IF i = 0 THEN <<dropCR(b)>>
            ELSE <<dropCR(SubSeq(b, 1, i - 1))>> \o ScanLines(SubSeq(b, i + 1, Len(b)))

(* parser.go 55-61 *)
parsePlainStream(b, readErr, serviceID, containerID) ==
    LET lines == ScanLines(b)
    IN [entries |-> [i \in 1..Len(lines) |->
                        emitEntry(lines[i], "stdout", serviceID, containerID)],
        err |-> readErr]

(* parser.go 45-53 *)
isMultiplexHeader(header) ==
    /\ Len(header) >= 8
    /\ header[1] \in {1, 2}
    /\ header[2] = 0 /\ header[3] = 0 /\ header[4] = 0

(* binary.BigEndian.Uint32 *)
Uint32(b) == ((b[1] * 256 + b[2]) * 256 + b[3]) * 256 + b[4]

(* binary.BigEndian.PutUint32 *)
PutUint32(n) == <<(n \div 16777216) % 256, (n \div 65536) % 256, (n \div 256) % 256, n % 256>>

StreamOf_AlwaysStdout(header) == "stdout"

(* parser.go 29-32 *)
StreamOf(header) == IF header[1] = 2 THEN "stderr" ELSE "stdout"

(* io.ReadFull on a reader that ends before the buffer is full: the      *)
(* reader's error, or io.EOF when nothing was read and                   *)
(* io.ErrUnexpectedEOF when something was.                               *)
ReadFullError(got, readErr) ==
    IF readErr # NoError THEN readErr
    ELSE IF got = 0 THEN "EOF" ELSE "unexpected EOF"

(* parser.go 14-43 on the bytes b the reader delivers before it ends     *)
(* with readErr (NoError: a clean end of the stream).  The entries sent  *)
(* so far are emitted; the loop goes on with the bytes that follow the   *)
(* frame.                                                                 *)
RECURSIVE parseLoop(_, _, _, _, _)
parseLoop(b, readErr, emitted, serviceID, containerID) ==
    IF Len(b) < 8
    THEN IF readErr # NoError
         THEN [entries |-> emitted, err |-> readErr]
         ELSE LET plain == parsePlainStream(b, readErr, serviceID, containerID)
              IN [entries |-> emitted \o plain.entries, err |-> plain.err]
    ELSE IF ~isMultiplexHeader(SubSeq(b, 1, 8))
    THEN LET plain == parsePlainStream(b, readErr, serviceID, containerID)
         IN [entries |-> emitted \o plain.entries, err |-> plain.err]
    ELSE LET header == SubSeq(b, 1, 8)
             rest   == SubSeq(b, 9, Len(b))
             size   == Uint32(SubSeq(header, 5, 8))
         IN IF size = 0 THEN parseLoop(rest, readErr, emitted, serviceID, containerID)
            ELSE IF Len(rest) < size
            THEN [entries |-> emitted, err |-> ReadFullError(Len(rest), readErr)]
            ELSE parseLoop(SubSeq(rest, size + 1, Len(rest)), readErr,
                           Append(emitted, emitEntry(SubSeq(rest, 1, size), StreamOf(header),
                                                     serviceID, containerID)),
                           serviceID, containerID)

ParseDockerStream(b, readErr, serviceID, containerID) ==
    parseLoop(b, readErr, <<>>, serviceID, containerID)

(* One frame as Docker writes it: stream id, three zero bytes, the length *)
(* of the payload as a big-endian 32-bit integer, the payload.            *)
EncodeFrame(f) == <<f.id, 0, 0, 0>> \o PutUint32(Len(f.payload)) \o f.payload

RECURSIVE EncodeFrames(_)
EncodeFrames(fs) ==
    IF fs = <<>> THEN <<>> ELSE EncodeFrame(Head(fs)) \o EncodeFrames(Tail(fs))

(* Payloads: empty, a word, a word between white space, two lines. *)
Payloads == {<<>>, <<LetterA>>, <<SP, LetterA, LF>>, <<LetterA, LF, LetterA>>}

Frames == [id : {1, 2}, payload : Payloads]

FrameLists == UNION {[1..n -> Frames] : n \in 0..MaxFrames}

TextBytes == {LetterA, SP, LF}

Texts == UNION {[1..n -> TextBytes] : n \in 0..MaxText}

Readers == {<<"svcA", "c1">>, <<"svcB", "c2">>}

StreamInputs ==
    {[kind |-> "Stream", form |-> "frames", frames |-> fs, bytes |-> EncodeFrames(fs),
      readErr |-> NoError, svc |-> r[1], id |-> r[2]] : fs \in FrameLists, r \in Readers}
    \cup
    {[kind |-> "Stream", form |-> "plain", frames |-> <<>>, bytes |-> t,
      readErr |-> NoError, svc |-> r[1], id |-> r[2]] : t \in Texts, r \in Readers}

ParseCall ==
    /\ lastCall.kind = "Stream"
    /\ lastCall' = [kind |-> "ParseDockerStream", input |-> lastCall,
                    result |-> ParseDockerStream(lastCall.bytes, lastCall.readErr,
                                                 lastCall.svc, lastCall.id)]
    /\ UNCHANGED <<procs, now, rules, container_metrics, logs, services, containers,
                   host_metrics, repoVars, sent, engineMaps, eval, evalCount, writes,
                   atBegin, sameList>>

InitParse ==
    /\ InitTables({{}}, {0}, {0})
    /\ lastCall \in StreamInputs

NextParse == ParseCall

SpecParse == InitParse /\ [][NextParse]_vars

(* Streams that stop anywhere: every beginning of a multiplexed stream,   *)
(* and a stream with a byte that is no stream id where a header is due,   *)
(* the reader ending cleanly or with an error.                            *)
ReadErrors == {NoError, "read tcp: connection reset by peer"}

Prefixes(b) == {SubSeq(b, 1, n) : n \in 0..Len(b)}

Garbled(b) == {b \o <<LetterA>> \o t : t \in {<<>>, <<LF, LetterA, 0, 0, 0, 0, 0, 0>>}}

(* Frames of one line and of two lines *)
CutFrames == [id : {1, 2}, payload : {<<LetterA>>, <<LetterA, LF, LetterA>>}]

CutFrameLists == UNION {[1..n -> CutFrames] : n \in 0..MaxFrames}

BrokenInput(form, fs, b, e) ==
    [kind |-> "Stream", form |-> form, frames |-> fs, bytes |-> b, readErr |-> e,
     svc |-> "svcA", id |-> "c1"]

BrokenInputs ==
    UNION {{BrokenInput("cut", fs, b, e) :
                b \in Prefixes(EncodeFrames(fs)), e \in ReadErrors}
           \cup {BrokenInput("garbled", fs, b, e) :
                b \in Garbled(EncodeFrames(fs)), e \in ReadErrors} : fs \in CutFrameLists}

InitBroken ==
    /\ InitTables({{}}, {0}, {0})
    /\ lastCall \in BrokenInputs

NextBroken == ParseCall

SpecBroken == InitBroken /\ [][NextBroken]_vars

(* logs.Ingestor.Reconcile over the containers the daemon lists. *)
HasPrefix(str, prefix) ==
    Len(prefix) <= Len(str) /\ SubSeq(str, 1, Len(prefix)) = prefix

(* part_001 56-61 *)
isSelfContainer(containerID) ==
    IF ingestor.selfID = "" THEN FALSE
    ELSE \/ containerID = ingestor.selfID
         \/ HasPrefix(containerID, ingestor.selfID)
         \/ HasPrefix(ingestor.selfID, containerID)

ListErrors == {NoError, "docker status 500"}

(* The keys of the map after the loop of ensureWorker calls (part_001     *)
(* 39-45, 63-74) and after the loop that cancels and deletes (46-53).     *)
Ensured(live) == ingestor.workers \cup live

Swept_KeepsAll(live) == Ensured(live)

Swept(live) == {id \in Ensured(live) : id \in live}

(* The worker whose goroutines are followed step by step. *)
WorkerID == "c1f00d"

ZeroTime == [set |-> FALSE, t |-> 0]
At(t) == [set |-> TRUE, t |-> t]

Range(q) == {q[i] : i \in 1..Len(q)}

(* part_001 76-83: runWorker has made the channel, started flushLoop      *)
(* (which has made its ticker and its batch) and set since and first.     *)
StartedWorker ==
    [pc |-> "start", first |-> TRUE, since |-> At(now - StartLookback),
     after |-> "start", nap |-> 0, wakeAt |-> 0, pending |-> 0, ending |-> NoError,
     ch |-> <<>>, closed |-> FALSE, accepted |-> 0, opens |-> <<>>,
     fpc |-> "select", batch |-> <<>>, lastTick |-> now, atCancel |-> {}]

(* part_001 32-54: the whole call; a started worker gets a live context,  *)
(* a removed one has its cancel function called.                          *)
Reconcile(listed, err) ==
    /\ IF err # NoError
       THEN /\ UNCHANGED <<ingestor, contexts, worker>>
            /\ lastCall' = [kind |-> "Reconcile", err |-> err, listed |-> listed,
                            started |-> {}, cancelled |-> {}]
       ELSE LET live == {id \in listed :
                            ~(ingestor.skipSelfLogs /\ isSelfContainer(id))}
                started == live \ ingestor.workers
                cancelled == Ensured(live) \ Swept(live)
            IN /\ ingestor' = [ingestor EXCEPT !.workers = Swept(live)]
               /\ contexts' = [id \in DockerIDs |->
                                 IF id \in cancelled THEN "cancelled"
                                 ELSE IF id \in started THEN "live"
                                 ELSE contexts[id]]
               /\ worker' = IF WorkerID \in started THEN StartedWorker
                            ELSE IF WorkerID \in cancelled /\ worker # NoWorker
                            THEN [worker EXCEPT !.atCancel =
                                        Range(worker.ch) \cup Range(worker.batch)]
                            ELSE worker
               /\ lastCall' = [kind |-> "Reconcile", err |-> err, listed |-> listed,
                               started |-> started, cancelled |-> cancelled]
    /\ UNCHANGED <<run, collector, notify, now, rules, container_metrics, logs, services, containers,
                   host_metrics, repoVars, sent, engineMaps, eval, evalCount, writes,
                   atBegin, sameList>>

Reconciles == \E listed \in SUBSET DockerIDs, err \in ListErrors : Reconcile(listed, err)

InitReconcile ==
    /\ InitStore({{}}, {0}, {0})
    /\ \E skip \in BOOLEAN, h \in HostNames : ingestor = NewIngestor(skip, h)
    /\ contexts = [id \in DockerIDs |-> "none"]
    /\ worker = NoWorker
    /\ run = NotRunning
    /\ collector = NewService
    /\ notify = NewTelegram("", "")
    /\ lastCall = NoCall

NextReconcile == Reconciles

SpecReconcile == InitReconcile /\ [][NextReconcile]_vars

(* One log worker: runWorker and flushLoop (part_001 76-150). *)
Cancelled == contexts[WorkerID] = "cancelled"

(* client.go 126-154: the query of the request; a parameter that is not   *)
(* set is the empty sequence.                                             *)
Logs(id, since, follow, tail) ==
    [id |-> id,
     follow |-> IF follow THEN <<"1">> ELSE <<>>,
     since |-> IF since.set THEN <<since.t>> ELSE <<>>,
     tail |-> IF tail > 0 THEN <<tail>> ELSE <<>>,
     at |-> now]

Awake == worker.pc = "sleep" /\ now * 1000 >= worker.wakeAt

Sleep(w, ms, after) ==
    [w EXCEPT !.pc = "sleep", !.nap = ms, !.wakeAt = now * 1000 + ms, !.after = after]

(* part_001 84-103, 115: from the end of a sleep (or the start) to the    *)
(* return of dc.Logs.  After a parse the sleep is followed by the new     *)
(* since; after an open error the continue skips it.                      *)
WorkerLoop(results, sizes, limit) ==
    /\ worker.pc = "start" \/ Awake
    /\ LET since1 == IF worker.pc = "sleep" /\ worker.after = "parse"
                      THEN At(now - Overlap) ELSE worker.since
       IN IF Cancelled
          THEN worker' = [worker EXCEPT !.since = since1, !.closed = TRUE, !.pc = "done"]
          ELSE /\ Len(worker.opens) < limit
               /\ LET tail  == IF worker.first THEN FirstTail ELSE 0
                      since == IF worker.first THEN ZeroTime ELSE since1
                      w     == [worker EXCEPT !.first = FALSE, !.since = since,
                                    !.opens = Append(@,
                                        [after |-> worker.after,
                                         req |-> Logs(WorkerID, since, TRUE, tail)])]
                  IN \E res \in results :
                        IF res = "error"
                        THEN worker' = Sleep(w, OpenErrorSleep, "open")
                        ELSE \E k \in sizes, ending \in {NoError, "unexpected EOF"} :
                                worker' = [w EXCEPT !.pc = "parse", !.pending = k,
                                                    !.ending = ending]
    /\ UNCHANGED <<ingestor, contexts, run, collector, notify, lastCall, now, rules, container_metrics, logs,
                   services, containers, host_metrics, repoVars, sent, engineMaps, eval,
                   evalCount, writes, atBegin, sameList>>

Min(a, b) == IF a < b THEN a ELSE b

(* parser.go 72: ParseDockerStream sends the entries of the stream to the *)
(* channel; the sends that do not block are taken together.               *)
WorkerEmit ==
    /\ worker.pc = "parse"
    /\ worker.pending > 0
    /\ Len(worker.ch) < ChannelCap
    /\ LET n == Min(worker.pending, ChannelCap - Len(worker.ch))
       IN worker' = [worker EXCEPT !.ch = @ \o [i \in 1..n |-> worker.accepted + i],
                                   !.accepted = @ + n, !.pending = @ - n]
    /\ UNCHANGED <<ingestor, contexts, run, collector, notify, lastCall, now, rules, container_metrics, logs,
                   services, containers, host_metrics, repoVars, sent, engineMaps, eval,
                   evalCount, writes, atBegin, sameList>>

(* part_001 104-113: ParseDockerStream returns, at the end of the stream  *)
(* or, once the context is cancelled, at a failed read; then the sleep.   *)
WorkerStreamEnd ==
    /\ worker.pc = "parse"
    /\ \/ worker.pending = 0
       \/ Cancelled /\ Len(worker.ch) < ChannelCap
    /\ LET err == IF worker.pending = 0 THEN worker.ending ELSE "context canceled"
           w   == [worker EXCEPT !.pending = 0]
       IN worker' = IF err # NoError THEN Sleep(w, ParseErrorSleep, "parse")
                                     ELSE Sleep(w, StreamEndSleep, "parse")
    /\ UNCHANGED <<ingestor, contexts, run, collector, notify, lastCall, now, rules, container_metrics, logs,
                   services, containers, host_metrics, repoVars, sent, engineMaps, eval,
                   evalCount, writes, atBegin, sameList>>

LogRow(n) ==
    [ts |-> now, service_id |-> "svcA", container_id |-> WorkerID, stream |-> "stdout",
     n |-> n]

(* repo.go 79-99 under the context of the worker: BeginTx fails on a      *)
(* cancelled context; a statement that fails rolls the transaction back.  *)
InsertLogsError(entries, fault) ==
    IF Len(entries) = 0 THEN NoError
    ELSE IF Cancelled THEN "context canceled"
    ELSE IF fault = "insert" THEN "constraint failed"
    ELSE NoError

FlushCauses == {"done", "recv", "closed", "tick"}

Ready(cause) ==
    CASE cause = "done"   -> Cancelled
      [] cause = "recv"   -> worker.ch # <<>>
      [] cause = "closed" -> worker.ch = <<>> /\ worker.closed
      [] cause = "tick"   -> now - worker.lastTick >= FlushEvery

Flushes_OnlyWhenFull(cause, batch) == Len(batch) >= BatchSize

(* part_001 132-149: which passes of the loop call flush *)
Flushes(cause, batch) == cause # "recv" \/ Len(batch) >= BatchSize

(* part_001 119-150: one pass of the select loop of flushLoop *)
FlushLoop(fault) ==
    /\ worker # NoWorker
    /\ worker.fpc = "select"
    /\ \E cause \in FlushCauses :
        /\ Ready(cause)
        /\ LET batch == IF cause = "recv" THEN Append(worker.batch, Head(worker.ch))
                                          ELSE worker.batch
               flush == Flushes(cause, batch)
               call  == flush /\ Len(batch) > 0
               err   == IF call THEN InsertLogsError(batch, fault) ELSE NoError
           IN /\ worker' = [worker EXCEPT
                    !.ch = IF cause = "recv" THEN Tail(@) ELSE @,
                    !.batch = IF flush THEN <<>> ELSE batch,
                    !.fpc = IF cause \in {"done", "closed"} THEN "done" ELSE @,
                    !.lastTick = IF cause = "tick" THEN @ + FlushEvery ELSE @]
              /\ logs' = IF call /\ err = NoError
                         THEN logs \o [i \in 1..Len(batch) |-> LogRow(batch[i])]
                         ELSE logs
              /\ lastCall' = [kind |-> "flushLoop", cause |-> cause, flush |-> flush,
                              count |-> IF call THEN Len(batch) ELSE 0, err |-> err]
    /\ UNCHANGED <<ingestor, contexts, run, collector, notify, now, rules, container_metrics,
                   services, containers, host_metrics, repoVars, sent, engineMaps, eval,
                   evalCount, writes, atBegin, sameList>>

StartWorker == contexts[WorkerID] = "none" /\ Reconcile({WorkerID}, NoError)

CancelWorker == contexts[WorkerID] = "live" /\ Reconcile({}, NoError)

InsertFaults == {"none", "insert"}

SmallStreams == 0..MaxStream

InitWorker == InitWith({{}}, {0}, {0})

NextWorker ==
    \/ StartWorker
    \/ CancelWorker
    \/ Tick
    \/ WorkerLoop({"error", "stream"}, SmallStreams, MaxOpens)
    \/ WorkerEmit
    \/ WorkerStreamEnd
    \/ \E fault \in InsertFaults : FlushLoop(fault)

SpecWorker == InitWorker /\ [][NextWorker]_vars

(* A stream that fills the channel and leaves the worker waiting to send, *)
(* with a flusher that is faster than the clock and than Reconcile.       *)
LongStreams == {ChannelCap + 1}
OneStream == 1

Drained == worker # NoWorker => worker.ch = <<>>

QuietTick == Drained /\ Tick

QuietCancel == Drained /\ CancelWorker

(* The flusher takes a tick only when the channel has nothing for it. *)
QuietFlushLoop(fault) ==
    /\ FlushLoop(fault)
    /\ lastCall'.cause = "tick" => Drained

InitFlusher == InitWith({{}}, {0}, {0})

NextFlusher ==
    \/ StartWorker
    \/ QuietCancel
    \/ QuietTick
    \/ WorkerLoop({"stream"}, LongStreams, OneStream)
    \/ WorkerEmit
    \/ WorkerStreamEnd
    \/ \E fault \in InsertFaults : QuietFlushLoop(fault)

SpecFlusher == InitFlusher /\ [][NextFlusher]_vars

(* The collector's writes to the service and container tables alone. *)
UpsertsAny ==
    \E svc \in ServiceIDs, id \in ContainerIDs, st \in DockerStates :
        UpsertServiceAndContainer(svc, id, st, 0)

InitCollector == InitWith({{}}, {0}, {0})

NextCollector ==
    \/ Tick
    \/ UpsertsAny
    \/ MarkMissing

SpecCollector == InitCollector /\ [][NextCollector]_vars

----------------------------------------------------------------------------
(* Properties.  A step of EvalStep is recognised by the loop position      *)
(* moving on; lastCall' then holds the arguments of its evalTarget call    *)
(* and the state row the call read.                                        *)

(* The ordinary arithmetic meaning of a rule's condition. *)
Holds(v, rule) ==
    \/ rule.operator = ">"  /\ v > rule.threshold
    \/ rule.operator = ">=" /\ v >= rule.threshold
    \/ rule.operator = "<"  /\ v < rule.threshold
    \/ rule.operator = "<=" /\ v <= rule.threshold
    \/ rule.operator = "==" /\ v = rule.threshold

Called == eval.pc = "loop" /\ eval' # eval

StateName(row) == IF row = NoRow THEN "OK" ELSE row.state

LastFiredOf(row) == IF row = NoRow THEN NoTime ELSE row.last_fired_ts

PairAlerts(tbl, r, t) ==
    {i \in 1..Len(tbl) : tbl[i].rule_id = r /\ tbl[i].target_fingerprint = t}

PairFiring(tbl, r, t) == {i \in PairAlerts(tbl, r, t) : tbl[i].status = "firing"}

IsCall == lastCall.kind = "evalTarget"

(* The step leaves the alert rows, the notifications and the notification  *)
(* events as they were.                                                    *)
Quiet == alerts' = alerts /\ sent' = sent /\ notification_events' = notification_events

(* C1: for a rule with for_seconds = 0 and cooldown_seconds = 0 and a pair *)
(* that is OK or has no state row, one evaluation whose condition holds    *)
(* creates exactly one alert row, status firing, for the pair, sets the    *)
(* state to FIRING and dispatches one ALERT notification.                  *)
C1_FiresOnce ==
    [][ LET r == rules[lastCall'.rule]
            t == lastCall'.target
        IN (/\ Called
            /\ r.for_seconds = 0 /\ r.cooldown_seconds = 0
            /\ StateName(alert_states[<<r.id, t>>]) = "OK"
            /\ Holds(lastCall'.value, r))
           => /\ Len(alerts') = Len(alerts) + 1
              /\ SubSeq(alerts', 1, Len(alerts)) = alerts
              /\ alerts'[Len(alerts')].rule_id = r.id
              /\ alerts'[Len(alerts')].target_fingerprint = t
              /\ alerts'[Len(alerts')].status = "firing"
              /\ Cardinality(PairFiring(alerts', r.id, t)) = 1
              /\ alert_states'[<<r.id, t>>] # NoRow
              /\ alert_states'[<<r.id, t>>].state = "FIRING"
              /\ Len(sent') = Len(sent) + 1
              /\ sent'[Len(sent')].msg.kind = "ALERT"
              /\ sent'[Len(sent')].alert_id = alerts'[Len(alerts')].id
      ]_vars

C1_Witness ==
    /\ IsCall
    /\ rules[lastCall.rule].for_seconds = 0
    /\ rules[lastCall.rule].cooldown_seconds = 0
    /\ StateName(lastCall.row) = "OK"
    /\ Holds(lastCall.value, rules[lastCall.rule])
    /\ alert_states[<<lastCall.rule, lastCall.target>>] # NoRow
    /\ alert_states[<<lastCall.rule, lastCall.target>>].state = "FIRING"
    /\ Cardinality(PairFiring(alerts, lastCall.rule, lastCall.target)) = 1
    /\ Len(sent) > 0 /\ sent[Len(sent)].msg.kind = "ALERT"

(* C2: when a pair is FIRING with one firing alert row and an evaluation   *)
(* finds the condition false, the row becomes recovered with ended_ts the  *)
(* evaluation time, the state becomes OK, and a notification event for the *)
(* RECOVERY message is persisted in notification_events.                   *)
C2_RecoveryEventPersisted ==
    [][ LET r == rules[lastCall'.rule]
            t == lastCall'.target
            f == PairFiring(alerts, r.id, t)
        IN (/\ Called
            /\ StateName(alert_states[<<r.id, t>>]) = "FIRING"
            /\ Cardinality(f) = 1
            /\ ~Holds(lastCall'.value, r))
           => /\ \A i \in f : /\ alerts'[i].status = "recovered"
                              /\ alerts'[i].ended_ts = now
              /\ alert_states'[<<r.id, t>>].state = "OK"
              /\ Len(notification_events') = Len(notification_events) + 1
      ]_vars

(* The part of C2 the engine does keep: the firing row is closed at the    *)
(* evaluation time, the state becomes OK, the RECOVERY message is handed   *)
(* to the notifier.                                                        *)
RecoveryClosesAlert ==
    [][ LET r == rules[lastCall'.rule]
            t == lastCall'.target
            f == PairFiring(alerts, r.id, t)
        IN (/\ Called
            /\ StateName(alert_states[<<r.id, t>>]) = "FIRING"
            /\ Cardinality(f) = 1
            /\ ~Holds(lastCall'.value, r))
           => /\ \A i \in f : /\ alerts'[i].status = "recovered"
                              /\ alerts'[i].ended_ts = now
              /\ alert_states'[<<r.id, t>>].state = "OK"
              /\ Len(sent') = Len(sent) + 1
              /\ sent'[Len(sent')].msg.kind = "RECOVERY"
              /\ notification_events' = notification_events
      ]_vars

(* C3 as stated: with cooldown_seconds = C > 0, after a pair fired at t0   *)
(* and recovered, an evaluation at t with t - t0 < C whose condition holds *)
(* puts the pair in COOLDOWN with last_fired_ts still t0 and creates no    *)
(* alert row and no notification.                                          *)
C3_CooldownOnAnyRefire ==
    [][ LET r   == rules[lastCall'.rule]
            t   == lastCall'.target
            row == alert_states[<<r.id, t>>]
        IN (/\ Called
            /\ r.cooldown_seconds > 0
            /\ row # NoRow /\ row.state = "OK"
            /\ row.last_fired_ts # NoTime /\ row.last_recovered_ts # NoTime
            /\ now - row.last_fired_ts < r.cooldown_seconds
            /\ Holds(lastCall'.value, r))
           => /\ alert_states'[<<r.id, t>>].state = "COOLDOWN"
              /\ alert_states'[<<r.id, t>>].last_fired_ts = row.last_fired_ts
              /\ Quiet
      ]_vars

(* C3 amended: with cooldown_seconds = C > 0 and a pair that fired at t0,  *)
(* an evaluation at t with t - t0 < C that would otherwise fire (the pair  *)
(* OK and for_seconds = 0, or the pair PENDING and for_seconds elapsed)    *)
(* puts the pair in COOLDOWN with last_fired_ts still t0, creates no alert *)
(* row and sends no notification.                                          *)
C3_CooldownSuppressesFiring ==
    [][ LET r   == rules[lastCall'.rule]
            t   == lastCall'.target
            row == alert_states[<<r.id, t>>]
        IN (/\ Called
            /\ r.cooldown_seconds > 0
            /\ row # NoRow
            /\ \/ row.state = "OK" /\ r.for_seconds = 0
               \/ row.state = "PENDING" /\ now - row.since_ts >= r.for_seconds
            /\ row.last_fired_ts # NoTime
            /\ now - row.last_fired_ts < r.cooldown_seconds
            /\ Holds(lastCall'.value, r))
           => /\ alert_states'[<<r.id, t>>].state = "COOLDOWN"
              /\ alert_states'[<<r.id, t>>].last_fired_ts = row.last_fired_ts
              /\ Quiet
      ]_vars

C3_Witness ==
    /\ IsCall
    /\ rules[lastCall.rule].cooldown_seconds > 0
    /\ lastCall.row # NoRow
    /\ lastCall.row.state \in {"OK", "PENDING"}
    /\ lastCall.row.last_fired_ts # NoTime
    /\ lastCall.at - lastCall.row.last_fired_ts < rules[lastCall.rule].cooldown_seconds
    /\ Holds(lastCall.value, rules[lastCall.rule])
    /\ alert_states[<<lastCall.rule, lastCall.target>>].state = "COOLDOWN"
    /\ Cardinality(PairAlerts(alerts, lastCall.rule, lastCall.target)) = 1

(* C4: for a rule with for_seconds > 0, an evaluation of an OK pair whose  *)
(* condition holds moves it to PENDING with since_ts the evaluation time;  *)
(* entering PENDING, and every later evaluation while PENDING with         *)
(* now - since_ts < for_seconds, creates no alert row and sends no         *)
(* notification.                                                           *)
C4_PendingIsSilent ==
    [][ LET r   == rules[lastCall'.rule]
            t   == lastCall'.target
            row == alert_states[<<r.id, t>>]
        IN (Called /\ r.for_seconds > 0)
           => /\ (StateName(row) = "OK" /\ Holds(lastCall'.value, r))
                  => /\ alert_states'[<<r.id, t>>] # NoRow
                     /\ alert_states'[<<r.id, t>>].state = "PENDING"
                     /\ alert_states'[<<r.id, t>>].since_ts = now
                     /\ Quiet
              /\ (StateName(row) = "PENDING" /\ now - row.since_ts < r.for_seconds)
                  => Quiet
      ]_vars

C4_Witness ==
    /\ IsCall
    /\ rules[lastCall.rule].for_seconds > 0
    /\ StateName(lastCall.row) = "PENDING"
    /\ lastCall.at - lastCall.row.since_ts < rules[lastCall.rule].for_seconds
    /\ Holds(lastCall.value, rules[lastCall.rule])
    /\ alert_states[<<lastCall.rule, lastCall.target>>].state = "PENDING"
    /\ alerts = <<>> /\ sent = <<>>

(* C5: when a PENDING pair with since_ts = s is evaluated with the         *)
(* condition true at now with now - s >= for_seconds and no cooldown       *)
(* applies, it becomes FIRING, the state's since_ts stays s, and the alert *)
(* row this transition creates has started_ts = s.                         *)
C5_AlertStartsAtPendingSince ==
    [][ LET r   == rules[lastCall'.rule]
            t   == lastCall'.target
            row == alert_states[<<r.id, t>>]
        IN (/\ Called
            /\ StateName(row) = "PENDING"
            /\ Holds(lastCall'.value, r)
            /\ now - row.since_ts >= r.for_seconds
            /\ ~(row.last_fired_ts # NoTime
                 /\ now - row.last_fired_ts < r.cooldown_seconds))
           => /\ alert_states'[<<r.id, t>>].state = "FIRING"
              /\ alert_states'[<<r.id, t>>].since_ts = row.since_ts
              /\ Len(alerts') = Len(alerts) + 1
              /\ alerts'[Len(alerts')].started_ts = row.since_ts
      ]_vars

(* What the engine does on that transition: FIRING, since_ts kept, and the *)
(* alert row starts at the evaluation time.                                *)
PendingFiresAtEvaluationTime ==
    [][ LET r   == rules[lastCall'.rule]
            t   == lastCall'.target
            row == alert_states[<<r.id, t>>]
        IN (/\ Called
            /\ StateName(row) = "PENDING"
            /\ Holds(lastCall'.value, r)
            /\ now - row.since_ts >= r.for_seconds
            /\ ~(row.last_fired_ts # NoTime
                 /\ now - row.last_fired_ts < r.cooldown_seconds))
           => /\ alert_states'[<<r.id, t>>].state = "FIRING"
              /\ alert_states'[<<r.id, t>>].since_ts = row.since_ts
              /\ Len(alerts') = Len(alerts) + 1
              /\ alerts'[Len(alerts')].started_ts = now
      ]_vars

(* C6: an evaluation with the condition false moves a pair from FIRING,    *)
(* PENDING or COOLDOWN to OK, carrying last_fired_ts and setting           *)
(* last_recovered_ts to the evaluation time; a RECOVERY notification is    *)
(* dispatched only when the previous state was FIRING; an OK pair with the *)
(* condition false is left unchanged.                                      *)
C6_RecoveryTransition ==
    [][ LET r   == rules[lastCall'.rule]
            t   == lastCall'.target
            row == alert_states[<<r.id, t>>]
        IN (Called /\ ~Holds(lastCall'.value, r))
           => IF StateName(row) \in {"FIRING", "PENDING", "COOLDOWN"}
              THEN /\ alert_states'[<<r.id, t>>] =
                        AlertStateRow("OK", now, row.last_fired_ts, now)
                   /\ IF row.state = "FIRING"
                      THEN /\ Len(sent') = Len(sent) + 1
                           /\ SubSeq(sent', 1, Len(sent)) = sent
                           /\ sent'[Len(sent')].msg.kind = "RECOVERY"
                      ELSE sent' = sent
              ELSE /\ alert_states' = alert_states
                   /\ Quiet
      ]_vars

C6_Witness ==
    /\ IsCall
    /\ ~Holds(lastCall.value, rules[lastCall.rule])
    /\ StateName(lastCall.row) = "COOLDOWN"
    /\ alert_states[<<lastCall.rule, lastCall.target>>] =
            AlertStateRow("OK", lastCall.at, lastCall.row.last_fired_ts, lastCall.at)
    /\ Len(sent) = 2 /\ sent[2].msg.kind = "RECOVERY"
    /\ Cardinality(PairAlerts(alerts, lastCall.rule, lastCall.target)) = 1

----------------------------------------------------------------------------
(* container_restarts *)

RestartRules == {i \in RuleIDs : rules[i].metric_key = "container_restarts"}

RestartAlerts == {k \in 1..Len(alerts) : alerts[k].rule_id \in RestartRules}

(* The restart alerts the running (or last) Evaluate call created for the  *)
(* containers ids.                                                         *)
CreatedFor(ids) ==
    {k \in RestartAlerts : k > atBegin.alerts /\ alerts[k].target_fingerprint \in ids}

Listed(list, id, svc) ==
    \E i \in 1..Len(list) : list[i].id = id /\ list[i].service_id = svc

ListedAs(list, id, svc, status) ==
    \E i \in 1..Len(list) :
        list[i].id = id /\ list[i].service_id = svc /\ list[i].status = status

(* C7: for a container a previous Evaluate observed with restart count n,  *)
(* an Evaluate that sees the same id with a count above n yields value 1   *)
(* and (threshold 1, for 0, cooldown 0) exactly one firing restart alert   *)
(* for it; an Evaluate that sees an unchanged or lower count yields 0.     *)
C7_ValueFollowsCounter ==
    [][ LET r == rules[eval.ri]
            c == eval.containers[eval.ci]
        IN (/\ Called
            /\ r.metric_key = "container_restarts"
            /\ c.id \in DOMAIN lastRest)
           => IF c.restart_count > lastRest[c.id]
              THEN /\ lastCall'.value = 1
                   /\ Cardinality(PairFiring(alerts', r.id, c.id)) = 1
              ELSE lastCall'.value = 0
      ]_vars

(* The half of C7 about an increased count. *)
IncrementFires ==
    [][ LET r == rules[eval.ri]
            c == eval.containers[eval.ci]
        IN (/\ Called
            /\ r.metric_key = "container_restarts"
            /\ c.id \in DOMAIN lastRest
            /\ c.restart_count > lastRest[c.id])
           => /\ lastCall'.value = 1
              /\ Cardinality(PairFiring(alerts', r.id, c.id)) = 1
      ]_vars

(* The service svc was backed by old when the Evaluate call began, old is  *)
(* listed with its count unchanged and new, never observed before, is      *)
(* listed for svc; no other row belongs to svc.                            *)
Replaced(svc, old, new) ==
    LET list == eval.containers
    IN /\ old # new
       /\ svc \in DOMAIN atBegin.lastSvc /\ atBegin.lastSvc[svc] = old
       /\ old \in DOMAIN atBegin.lastRest
       /\ new \notin DOMAIN atBegin.lastRest
       /\ \E i \in 1..Len(list) :
            /\ list[i].id = old /\ list[i].service_id = svc
            /\ list[i].restart_count = atBegin.lastRest[old]
       /\ Listed(list, new, svc)
       /\ \A i \in 1..Len(list) : list[i].service_id = svc => list[i].id \in {old, new}

(* C8: when the container backing a service is replaced between two        *)
(* Evaluate calls, the restart counts unchanged, the second call creates   *)
(* exactly one container_restarts alert for that replacement.              *)
C8_ReplacementFiresOnce ==
    (eval.pc = "idle" /\ evalCount > 0)
        => \A svc \in ServiceIDs, old \in ContainerIDs, new \in ContainerIDs :
                Replaced(svc, old, new)
                    => /\ Cardinality(CreatedFor({old, new})) = 1
                       /\ Cardinality(CreatedFor({new})) = 1

C8_Witness ==
    /\ eval.pc = "idle"
    /\ \E svc \in ServiceIDs, old \in ContainerIDs, new \in ContainerIDs :
            /\ Replaced(svc, old, new)
            /\ Cardinality(CreatedFor({old, new})) = 1

(* C9: the first Evaluate of an engine creates no container_restarts alert *)
(* whatever the container list, rows sharing one service id included.      *)
C9_NoRestartAlertOnFirstEvaluate ==
    evalCount <= 1 => RestartAlerts = {}

(* C10: a service with an old row of status missing and a new row of       *)
(* status running, the rows the same at every Evaluate call: no            *)
(* container_restarts alert, however many calls.                           *)
C10_HistoricalMissingIgnored ==
    (/\ evalCount >= 1
     /\ sameList
     /\ \E svc \in ServiceIDs, old \in ContainerIDs, new \in ContainerIDs :
            /\ old # new
            /\ ListedAs(eval.containers, old, svc, "missing")
            /\ ListedAs(eval.containers, new, svc, "running"))
        => RestartAlerts = {}

(* C11: after an Evaluate call returns, no container_restarts alert that   *)
(* existed when the call began is still firing for a target that is not    *)
(* among the listed containers.                                            *)
C11_StaleRestartAlertsRecovered ==
    (eval.pc = "idle" /\ evalCount > 0)
        => \A k \in RestartAlerts :
                (k <= atBegin.alerts /\ alerts[k].status = "firing")
                    => \E i \in 1..Len(containers) :
                            containers[i].id = alerts[k].target_fingerprint

(* What holds instead: Evaluate never touches the alert rows and the state *)
(* row of a target that is not listed.                                     *)
StaleAlertsUntouched ==
    [][ Called =>
            /\ alert_states'[<<eval.ri, StaleTarget>>] = alert_states[<<eval.ri, StaleTarget>>]
            /\ \A k \in 1..Len(alerts) :
                    alerts[k].target_fingerprint = StaleTarget => alerts'[k] = alerts[k]
      ]_vars

(* C12: the container_unavailable value of a row at evaluation time now is *)
(* 1 exactly when the row's status is 'running' in any letter case and     *)
(* now - last_seen_at is more than 60 seconds; otherwise (exactly 60       *)
(* seconds, status missing or exited) it is 0.                             *)
RunningInAnyCase == {"running", "RUNNING", "Running"}

C12_UnavailableValue ==
    [][ LET r == rules[eval.ri]
            c == eval.containers[eval.ci]
        IN (Called /\ r.metric_key = "container_unavailable")
           => lastCall'.value =
                IF c.status \in RunningInAnyCase /\ eval.loopNow - c.last_seen_at > 60
                THEN 1 ELSE 0
      ]_vars

C12_Witness ==
    /\ IsCall
    /\ rules[lastCall.rule].metric_key = "container_unavailable"
    /\ lastCall.value = 1
    /\ \E i \in 1..Len(eval.containers) :
            /\ eval.containers[i].id = lastCall.target
            /\ eval.containers[i].status = "RUNNING"
            /\ lastCall.at - eval.containers[i].last_seen_at = UnavailableAfter + 1

----------------------------------------------------------------------------
(* Notifications *)

(* The step dispatches one notification; Dispatched is its record. *)
Dispatches == Len(sent') = Len(sent) + 1 /\ SubSeq(sent', 1, Len(sent)) = sent

Dispatched == sent'[Len(sent')]

(* C13: the ALERT notification of a created alert makes at most 3 send     *)
(* attempts, stops at the first success, and persists exactly one          *)
(* notification event: 'sent' with the attempts used, or 'failed' with     *)
(* attempts = 3 and the last error text after three failures.              *)
C13_OneEventPerNotification ==
    [][ (Called /\ Len(alerts') = Len(alerts) + 1)
        => LET a == alerts'[Len(alerts')]
               n == Dispatched
               e == notification_events'[Len(notification_events')]
               last == Len(n.tries)
           IN /\ Dispatches
              /\ n.msg.kind = "ALERT" /\ n.alert_id = a.id
              /\ last \in 1..3
              /\ \A k \in 1..(last - 1) : n.tries[k] # NoError
              /\ last < 3 => n.tries[last] = NoError
              /\ Len(notification_events') = Len(notification_events) + 1
              /\ SubSeq(notification_events', 1, Len(notification_events))
                    = notification_events
              /\ e.alert_id = a.id
              /\ IF n.tries[last] = NoError
                 THEN e.status = "sent" /\ e.attempts = last
                 ELSE /\ e.status = "failed" /\ e.attempts = 3
                      /\ e.last_error = n.tries[3] /\ e.last_error # NoError
      ]_vars

C13_Witness ==
    /\ \E i \in 1..Len(notification_events) :
            /\ notification_events[i].status = "failed"
            /\ notification_events[i].attempts = 3
            /\ notification_events[i].last_error = SendErrors[3]
    /\ \E i \in 1..Len(notification_events) :
            /\ notification_events[i].status = "sent"
            /\ notification_events[i].attempts = 2
    /\ Len(notification_events) = Len(alerts)

(* The loop position after the call at (ri, ci): the next target of a      *)
(* container rule, else the first target of the next enabled rule that has *)
(* one, else the end of the Evaluate call.                                 *)
HasTarget(i, list) == rules[i].target_type = "host" \/ Len(list) > 0

Remaining(ri, list) == {i \in RuleIDs : i > ri /\ rules[i].enabled /\ HasTarget(i, list)}

GoesOn ==
    LET list  == eval.containers
        later == Remaining(eval.ri, list)
    IN IF rules[eval.ri].target_type = "container" /\ eval.ci < Len(list)
       THEN eval'.pc = "loop" /\ eval'.ri = eval.ri /\ eval'.ci = eval.ci + 1
       ELSE IF later = {} THEN eval'.pc = "idle"
       ELSE /\ eval'.pc = "loop" /\ eval'.ci = 1
            /\ eval'.ri \in later /\ \A i \in later : eval'.ri <= i

(* C14: a notification that fails at all three attempts does not abort the *)
(* evaluation: its alert row stays firing, the pair's state is written     *)
(* FIRING, and the Evaluate call goes on to every remaining enabled rule   *)
(* and target.                                                             *)
C14_FailedSendDoesNotAbort ==
    [][ (/\ Called /\ Dispatches
         /\ Dispatched.msg.kind = "ALERT" /\ ~Dispatched.delivered)
        => /\ Dispatched.attempts = 3
           /\ \E k \in 1..Len(alerts') :
                /\ alerts'[k].id = Dispatched.alert_id
                /\ alerts'[k].status = "firing"
                /\ alerts'[k].rule_id = lastCall'.rule
                /\ alerts'[k].target_fingerprint = lastCall'.target
           /\ alert_states'[<<lastCall'.rule, lastCall'.target>>].state = "FIRING"
           /\ GoesOn
      ]_vars

(* The host CPU alert was not delivered, and the same Evaluate call went   *)
(* on to the restart rule and evaluated both containers.                   *)
C14_Witness ==
    /\ eval.pc = "idle" /\ evalCount = 1
    /\ Len(sent) >= 1 /\ ~sent[1].delivered /\ sent[1].msg.target = "host"
    /\ Len(alerts) >= 1 /\ alerts[1].status = "firing"
    /\ alert_states[<<1, "host">>].state = "FIRING"
    /\ IsCall /\ lastCall.rule = 5 /\ lastCall.target = "c2"
    /\ DOMAIN lastRest = {"c1", "c2"}

----------------------------------------------------------------------------
(* Repository writes of the collector *)

Marks == lastCall'.kind = "MarkMissingContainers" /\ writes' = writes + 1

(* C15: MarkMissingContainers(visibleSet) leaves every row whose id is in  *)
(* visibleSet unchanged, sets status 'missing' on every other row that is  *)
(* not already missing (every non-missing row when visibleSet is empty),   *)
(* and touches neither the rows already missing nor any other field.       *)
C15_MarkMissingFrame ==
    [][ Marks =>
            /\ Len(containers') = Len(containers)
            /\ \A i \in 1..Len(containers) :
                    /\ containers[i].id \in lastCall'.seen => containers'[i] = containers[i]
                    /\ containers[i].status = "missing" => containers'[i] = containers[i]
                    /\ (containers[i].id \notin lastCall'.seen
                            /\ containers[i].status # "missing")
                        => /\ containers'[i].status = "missing"
                           /\ [containers'[i] EXCEPT !.status = containers[i].status]
                                = containers[i]
            /\ services' = services
      ]_vars

(* A call with a non-empty visible set left a visible exited row as it was *)
(* and the other row is missing.                                           *)
C15_Witness ==
    /\ lastCall.kind = "MarkMissingContainers"
    /\ lastCall.seen # {}
    /\ Len(containers) = 2
    /\ \E i, j \in 1..2 :
            /\ containers[i].id \in lastCall.seen /\ containers[i].status = "exited"
            /\ containers[j].id \notin lastCall.seen /\ containers[j].status = "missing"

----------------------------------------------------------------------------
(* Retention *)

Rows(tbl) == {tbl[i] : i \in 1..Len(tbl)}

(* The step is a DeleteOlderThan call. *)
Deletes ==
    /\ lastCall'.kind = "DeleteOlderThan"
    /\ now' = now /\ evalCount' = evalCount
    /\ Len(host_metrics') <= Len(host_metrics) /\ Len(logs') <= Len(logs)

(* Exactly the rows of the table with ts before the cutoff are gone. *)
Trimmed(before, after, cutoff) ==
    /\ Rows(after) \subseteq Rows(before)
    /\ \A row \in Rows(before) : row \in Rows(after) <=> row.ts >= cutoff

(* C17: DeleteOlderThan(cutoff) removes exactly the host-metric,           *)
(* container-metric and log rows with ts < cutoff and the recovered alerts *)
(* that started before cutoff; every row with ts >= cutoff and every       *)
(* firing alert, whatever its age, remains.                                *)
C17_RetentionFrame ==
    [][ Deletes =>
            LET cutoff == lastCall'.cutoff
            IN /\ Trimmed(host_metrics, host_metrics', cutoff)
               /\ Trimmed(container_metrics, container_metrics', cutoff)
               /\ Trimmed(logs, logs', cutoff)
               /\ Rows(alerts') \subseteq Rows(alerts)
               /\ \A a \in Rows(alerts) :
                    /\ a.status = "firing" => a \in Rows(alerts')
                    /\ a \in Rows(alerts')
                        <=> ~(a.status = "recovered" /\ a.started_ts < cutoff)
      ]_vars

(* After a call with cutoff 3: the alert that fired at 0 and recovered is  *)
(* gone, the alert firing since 2 is kept, and so are the rows of time 3.  *)
C17_Witness ==
    /\ lastCall.kind = "DeleteOlderThan" /\ lastCall.cutoff = 3
    /\ alertSeq = 2 /\ Len(alerts) = 1
    /\ alerts[1].id = 2 /\ alerts[1].status = "firing" /\ alerts[1].started_ts = 2
    /\ Len(host_metrics) = 1 /\ host_metrics[1].ts = 3
    /\ Len(container_metrics) = 1
    /\ Len(logs) = 1 /\ logs[1].ts = 3
    /\ Len(sent) = 3

Upserted == lastCall'.kind = "UpsertServiceAndContainer" /\ writes' = writes + 1

(* C16: over any sequence of UpsertServiceAndContainer calls on a service  *)
(* id, the service's first_seen_at keeps the value the first call wrote,   *)
(* and last_seen_at of the service and of the container row is the time of *)
(* the latest call.                                                        *)
C16_FirstSeenKept ==
    [][ Upserted =>
            LET svc == lastCall'.svc
                id  == lastCall'.id
            IN /\ services'[svc] # NoRow
               /\ services'[svc].first_seen_at =
                    (IF services[svc] = NoRow THEN now ELSE services[svc].first_seen_at)
               /\ services'[svc].last_seen_at = now
               /\ \E i \in 1..Len(containers') :
                    /\ containers'[i].id = id
                    /\ containers'[i].service_id = svc
                    /\ containers'[i].last_seen_at = now
               /\ \A other \in ServiceIDs \ {svc} : services'[other] = services[other]
      ]_vars

C16_Witness ==
    /\ lastCall.kind = "UpsertServiceAndContainer"
    /\ services[lastCall.svc] # NoRow
    /\ services[lastCall.svc].first_seen_at = 0
    /\ services[lastCall.svc].last_seen_at = 2
    /\ \E i \in 1..Len(containers) :
            /\ containers[i].id = lastCall.id
            /\ containers[i].last_seen_at = 2
    /\ \E i \in 1..Len(containers) :
            /\ containers[i].id # lastCall.id
            /\ containers[i].service_id = lastCall.svc
            /\ containers[i].last_seen_at = 1

----------------------------------------------------------------------------
(* Pure functions *)

(* C18: compare(v, op, t) is the truth value of the arithmetic comparison  *)
(* v op t for each operator of >, >=, <, <=, ==, and false for every other *)
(* operator string.                                                        *)
C18_CompareIsArithmetic ==
    lastCall.kind = "compare"
        => LET v == lastCall.v
               t == lastCall.threshold
           IN lastCall.result =
                CASE lastCall.op = ">"  -> v > t
                  [] lastCall.op = ">=" -> ~(v < t)
                  [] lastCall.op = "<"  -> v < t
                  [] lastCall.op = "<=" -> ~(v > t)
                  [] lastCall.op = "==" -> ~(v < t) /\ ~(v > t)
                  [] OTHER -> FALSE

C18_Witness ==
    /\ lastCall.kind = "compare"
    /\ lastCall.op = ">=" /\ lastCall.v = lastCall.threshold
    /\ lastCall.result = TRUE

(* The number of CPUs NormalizeStats is to use: online_cpus, else the      *)
(* length of percpu_usage, else 1.                                         *)
CpusOf(st) ==
    IF st.online_cpus # 0 THEN st.online_cpus
    ELSE IF st.percpu # 0 THEN st.percpu ELSE 1

(* Two fractions with positive denominators are the same number. *)
SameFraction(a, b) == a.num * b.den = b.num * a.den

(* C19: NormalizeStats returns cpu% = 0 whenever the system counter did    *)
(* not advance (system_cpu <= presystem_cpu) or the container counter went *)
(* backwards (cpu_total < precpu_total); otherwise cpu% is                 *)
(* (cpuDelta / sysDelta) * cpus * 100.                                     *)
C19_ZeroWhenCountersStall ==
    lastCall.kind = "NormalizeStats"
        => LET st == lastCall.stats
               m  == lastCall.metric
           IN IF st.system_cpu <= st.presystem_cpu \/ st.cpu_total < st.precpu_total
              THEN m.cpu_pct.num = 0
              ELSE SameFraction(m.cpu_pct,
                        [num |-> (st.cpu_total - st.precpu_total) * CpusOf(st) * 100,
                         den |-> st.system_cpu - st.presystem_cpu])

(* What holds: the formula when both counters advanced or the container    *)
(* counter stood still, and 0 when the system counter stood still.         *)
NormalizeWhenCountersAdvance ==
    lastCall.kind = "NormalizeStats"
        => LET st == lastCall.stats
               m  == lastCall.metric
           IN /\ st.system_cpu = st.presystem_cpu => m.cpu_pct.num = 0
              /\ (st.system_cpu > st.presystem_cpu /\ st.cpu_total >= st.precpu_total)
                    => SameFraction(m.cpu_pct,
                        [num |-> (st.cpu_total - st.precpu_total) * CpusOf(st) * 100,
                         den |-> st.system_cpu - st.presystem_cpu])

HasPayload(f) == f.payload # <<>>

(* The lines of a text: one for every line feed, and one for what follows  *)
(* the last line feed if anything does.                                    *)
LineCount(t) ==
    Cardinality({i \in 1..Len(t) : t[i] = LF})
        + (IF t # <<>> /\ t[Len(t)] # LF THEN 1 ELSE 0)

PlainStreamParsed ==
    /\ lastCall.kind = "ParseDockerStream"
    /\ lastCall.input.form = "plain"
    /\ LineCount(lastCall.input.bytes) = 2
    /\ Len(lastCall.result.entries) = 2

(* The container the program itself runs in: Docker names a container's   *)
(* host after the beginning of its id.                                     *)
Self(id) == ingestor.selfID # "" /\ HasPrefix(id, ingestor.selfID)

Wanted(listed) == {id \in listed : ~(ingestor.skipSelfLogs /\ Self(id))}

(* C21: after a Reconcile whose listing succeeds the keys of the worker    *)
(* map are the listed ids (without the self container under skip-self): a  *)
(* worker was started for every listed id that had none, every worker no   *)
(* longer listed was cancelled and removed; a failed listing leaves the    *)
(* map as it was.                                                          *)
C21_WorkersFollowListing ==
    [][lastCall'.kind = "Reconcile" =>
        IF lastCall'.err = NoError
        THEN /\ ingestor'.workers = Wanted(lastCall'.listed)
             /\ lastCall'.started = Wanted(lastCall'.listed) \ ingestor.workers
             /\ lastCall'.cancelled = ingestor.workers \ Wanted(lastCall'.listed)
             /\ \A id \in lastCall'.started : contexts'[id] = "live"
             /\ \A id \in lastCall'.cancelled : contexts'[id] = "cancelled"
             /\ \A id \in DockerIDs \ (lastCall'.started \cup lastCall'.cancelled) :
                    contexts'[id] = contexts[id]
        ELSE ingestor'.workers = ingestor.workers /\ contexts' = contexts]_vars

(* A Reconcile under skip-self started one worker, cancelled another and   *)
(* left the listed self container without one.                             *)
C21_Witness ==
    /\ lastCall.kind = "Reconcile"
    /\ lastCall.err = NoError
    /\ ingestor.skipSelfLogs /\ ingestor.selfID = "c1"
    /\ "c1f00d" \in lastCall.listed
    /\ lastCall.started = {"c2f00d"}
    /\ lastCall.cancelled = {"c3f00d"}
    /\ ingestor.workers = {"c2f00d"}

Written == {logs[i].n : i \in 1..Len(logs)}

(* C22: when a log worker is cancelled, every entry it had accepted (in    *)
(* its channel or in the batch of the flusher) is in the repository by the *)
(* time the worker and its flusher have returned.                          *)
C22_AcceptedEntriesWritten ==
    (worker # NoWorker /\ worker.pc = "done" /\ worker.fpc = "done")
        => worker.atCancel \subseteq Written

(* What holds: nothing is written once the context is cancelled, because   *)
(* every flush calls InsertLogs with the cancelled context.                *)
NothingWrittenAfterCancel == [][Cancelled => logs' = logs]_vars

Opened == IF worker = NoWorker THEN <<>> ELSE worker.opens

(* C28: the first open of a worker asks for tail=500 and no since; every   *)
(* later open, after a clean end, a parse error or an open error, asks for *)
(* no tail and since = the current time less 2 seconds.                    *)
C28_LaterOpensFollow ==
    \A i \in 1..Len(Opened) :
        LET req == Opened[i].req
        IN IF i = 1
           THEN req.tail = <<FirstTail>> /\ req.since = <<>>
           ELSE req.tail = <<>> /\ req.since = <<req.at - Overlap>>

(* What holds: the first open, and every open that follows a parse. *)
OpensAfterParseFollow ==
    \A i \in 1..Len(Opened) :
        LET req == Opened[i].req
        IN /\ i = 1 => req.tail = <<FirstTail>> /\ req.since = <<>>
           /\ i > 1 => req.tail = <<>>
           /\ Opened[i].after = "parse" => req.since = <<req.at - Overlap>>

(* What an open error leaves: the since of the request before it. *)
OpenErrorKeepsSince ==
    \A i \in 2..Len(Opened) :
        Opened[i].after = "open" => Opened[i].req.since = Opened[i - 1].req.since

Sleeping == worker # NoWorker /\ worker.pc = "sleep"

(* C29: a worker cancelled while it waits in a sleep leaves the sleep and  *)
(* exits without waiting for the sleep to elapse: the clock never moves    *)
(* over a cancelled worker that stays asleep.                              *)
C29_CancelEndsSleep ==
    [][~(Sleeping /\ Cancelled /\ now' > now /\ worker'.pc = "sleep")]_vars

(* What holds: a cancelled sleeper leaves its sleep only when the sleep    *)
(* has elapsed.                                                            *)
CancelledSleeperWaits ==
    [][(Sleeping /\ Cancelled /\ worker'.pc # "sleep")
            => now * 1000 >= worker.wakeAt]_vars

(* A pass of the select loop of the flusher. *)
FlusherStep ==
    /\ worker # NoWorker /\ worker' # NoWorker
    /\ \/ worker'.fpc # worker.fpc
       \/ worker'.lastTick # worker.lastTick
       \/ Len(worker'.ch) < Len(worker.ch)

Received == Append(worker.batch, Head(worker.ch))

WithinCapacity ==
    worker # NoWorker
        => /\ Len(worker.batch) <= BatchSize
           /\ Len(worker.ch) <= ChannelCap
           /\ Cardinality(Written) = Len(logs)
           /\ Written \cap (Range(worker.batch) \cup Range(worker.ch)) = {}

FlushesWhenDue ==
    FlusherStep =>
        LET cause == lastCall'.cause
            batch == IF cause = "recv" THEN Received ELSE worker.batch
            due   == cause \in {"tick", "done", "closed"} \/ Len(batch) = BatchSize
        IN /\ lastCall'.kind = "flushLoop"
           /\ lastCall'.flush <=> due
           /\ IF due
              THEN /\ worker'.batch = <<>>
                   /\ IF lastCall'.err = NoError
                      THEN /\ Len(logs') = Len(logs) + Len(batch)
                           /\ \A i \in 1..Len(batch) : logs'[Len(logs) + i].n = batch[i]
                           /\ SubSeq(logs', 1, Len(logs)) = logs
                      ELSE logs' = logs
              ELSE worker'.batch = batch /\ logs' = logs

(* C30: the batch never holds more than 200 entries and the channel never  *)
(* more than 256; the flusher flushes when the batch reaches 200, on a     *)
(* tick and on cancellation or channel close; after a flush attempt,       *)
(* successful or failed, the batch is empty, and the entries of a failed   *)
(* flush are not written later nor any entry written twice.                *)
C30_FlusherBatch == []WithinCapacity /\ [][FlushesWhenDue]_vars

(* A batch that reached 200 entries while the channel was full was flushed *)
(* without success: the batch is empty and nothing was written.            *)
C30_Witness ==
    /\ lastCall.kind = "flushLoop"
    /\ lastCall.cause = "recv" /\ lastCall.flush
    /\ lastCall.count = BatchSize /\ lastCall.err # NoError
    /\ worker.batch = <<>>
    /\ logs = <<>>
    /\ worker.accepted = ChannelCap + 1

(* A tick flushed what was left of the stream. *)
TickFlushed ==
    /\ lastCall.kind = "flushLoop"
    /\ lastCall.cause = "tick" /\ lastCall.count > 0 /\ lastCall.err = NoError

(* The channel was full with the worker waiting to send. *)
ChannelFull ==
    worker # NoWorker /\ Len(worker.ch) = ChannelCap /\ worker.pending > 0

----------------------------------------------------------------------------
(* App.Run (app.go 74-112): one goroutine makes the four startup calls and *)
(* then serves the four tickers from one select loop.  A call of a driver  *)
(* begins, runs while the tickers keep firing, and returns; the bodies of  *)
(* the drivers are the actions of the specifications above.                *)

(* app.go 92-95, in the order of the calls *)
StartupOrder == <<"collector.Tick", "ingestor.Reconcile", "alerts.Evaluate",
                  "retention.Run">>

Drivers == Range(StartupOrder)

(* app.go 82-85: the tickers exist before the first call *)
Started ==
    [pc |-> "startup", step |-> 0, ctx |-> "live",
     ticks |-> [d \in Drivers |-> FALSE],
     running |-> [d \in Drivers |-> 0],
     calls |-> [d \in Drivers |-> <<>>]]

(* Run leaves the ingestor, the engine and the tables to its drivers. *)
RunUnchanged ==
    UNCHANGED <<ingestor, contexts, worker, collector, notify, now, rules, services, containers,
                host_metrics, container_metrics, logs, repoVars, sent,
                engineMaps, eval, history>>

AppRun ==
    /\ run = NotRunning
    /\ collector = NewService
    /\ run' = Started
    /\ RunUnchanged

Waiting_NoWait == TRUE

(* A call is a plain function call: the goroutine goes on when it returns. *)
Waiting == \A d \in Drivers : run.running[d] = 0

Begin(r, d, origin) ==
    [r EXCEPT !.running[d] = @ + 1, !.calls[d] = Append(@, origin)]

(* app.go 92-95 *)
StartupCall ==
    /\ run # NotRunning
    /\ run.pc = "startup"
    /\ Waiting
    /\ run.step < Len(StartupOrder)
    /\ run' = Begin([run EXCEPT !.step = @ + 1], StartupOrder[run.step + 1], "startup")
    /\ RunUnchanged

(* The call in progress returns; after the last startup call the loop of  *)
(* app.go 97 is entered.                                                  *)
Return ==
    /\ run # NotRunning
    /\ \E d \in Drivers :
          /\ run.running[d] > 0
          /\ run' = [run EXCEPT !.running[d] = @ - 1,
                                !.pc = IF run.pc = "startup" /\ run.step = Len(StartupOrder)
                                       THEN "select" ELSE @]
    /\ RunUnchanged

(* time.Ticker: a channel of capacity 1; a tick that finds it full is     *)
(* dropped.                                                               *)
TickerFires ==
    /\ run # NotRunning
    /\ run.pc # "done"
    /\ \E d \in Drivers :
          /\ ~run.ticks[d]
          /\ run' = [run EXCEPT !.ticks[d] = TRUE]
    /\ RunUnchanged

(* app.go 102-109: one of the ready ticker cases *)
SelectDriver(d) ==
    /\ run # NotRunning
    /\ run.pc = "select"
    /\ Waiting
    /\ run.ticks[d]
    /\ Len(run.calls[d]) < MaxCalls
    /\ run' = Begin([run EXCEPT !.ticks[d] = FALSE], d, "ticker")
    /\ RunUnchanged

SelectCase == \E d \in Drivers : SelectDriver(d)

(* app.go 99-101 *)
SelectDone ==
    /\ run # NotRunning
    /\ run.pc = "select"
    /\ Waiting
    /\ run.ctx = "cancelled"
    /\ run' = [run EXCEPT !.pc = "done"]
    /\ RunUnchanged

(* The context given to Run is cancelled. *)
CancelRun ==
    /\ run # NotRunning
    /\ run.ctx = "live"
    /\ run' = [run EXCEPT !.ctx = "cancelled"]
    /\ RunUnchanged

InitRun == InitWith({{}}, {0}, {0})

NextRun ==
    \/ AppRun
    \/ StartupCall
    \/ Return
    \/ TickerFires
    \/ SelectCase
    \/ SelectDone
    \/ CancelRun

SpecRun == InitRun /\ [][NextRun]_vars

(* C23: no driver has two calls in progress; the first call of a driver   *)
(* is its startup call and every later one is ticker-driven; and the loop *)
(* is entered only after every driver had its startup call.               *)
C23_DriversNeverOverlap ==
    run # NotRunning =>
        \A d \in Drivers :
            /\ run.running[d] <= 1
            /\ \A i \in 1..Len(run.calls[d]) :
                  run.calls[d][i] = (IF i = 1 THEN "startup" ELSE "ticker")
            /\ run.pc \in {"select", "done"} => Len(run.calls[d]) >= 1

(* A ticker-driven call is running and the next tick of the same driver   *)
(* is already waiting.                                                    *)
C23_Witness ==
    /\ run # NotRunning
    /\ \E d \in Drivers :
          /\ run.running[d] = 1
          /\ run.calls[d] = <<"startup", "ticker">>
          /\ run.ticks[d]

----------------------------------------------------------------------------
(* The metrics tick: HostCollector.Collect (host.go 27-69) and             *)
(* collector.Service.Tick (app.js 121-173).                                *)

SubSamples == {"cpu", "mem", "net", "disk", "load", "uptime"}

(* What the six readers return: an error, or the values read.  The CPU    *)
(* counters are the jiffies of /proc/stat.                                 *)
ReadError == "open /proc: no such file or directory"

Reading(failing, total, idle) ==
    [cpu    |-> IF "cpu" \in failing
                THEN [err |-> ReadError, total |-> 0, idle |-> 0]
                ELSE [err |-> NoError, total |-> total, idle |-> idle],
     mem    |-> IF "mem" \in failing
                THEN [err |-> ReadError, total |-> 0, available |-> 0]
                ELSE [err |-> NoError, total |-> 8, available |-> 3],
     net    |-> IF "net" \in failing
                THEN [err |-> ReadError, rx |-> 0, tx |-> 0]
                ELSE [err |-> NoError, rx |-> 6, tx |-> 7],
     disk   |-> IF "disk" \in failing
                THEN [err |-> ReadError, total |-> 0, used |-> 0]
                ELSE [err |-> NoError, total |-> 9, used |-> 4],
     load   |-> IF "load" \in failing
                THEN [err |-> ReadError, l1 |-> 0, l5 |-> 0, l15 |-> 0]
                ELSE [err |-> NoError, l1 |-> 1, l5 |-> 2, l15 |-> 3],
     uptime |-> IF "uptime" \in failing
                THEN [err |-> ReadError, sec |-> 0]
                ELSE [err |-> NoError, sec |-> 5]]

(* models.HostMetric{} *)
ZeroMetric ==
    [ts |-> NoTime, cpu_pct |-> Zero, mem_used |-> 0, mem_total |-> 0,
     net_rx |-> 0, net_tx |-> 0, disk_used |-> 0, disk_total |-> 0,
     load1 |-> 0, load5 |-> 0, load15 |-> 0, uptime_sec |-> 0]

(* host.go 33-39: 100 * (1 - deltaIdle/deltaTotal) over unsigned deltas *)
CPUPct(prevCPU, total, idle) ==
    IF prevCPU = <<>> THEN Zero
    ELSE LET deltaTotal == Sub(total, prevCPU[1].total)
             deltaIdle  == Sub(idle, prevCPU[1].idle)
         IN IF deltaTotal > 0
            THEN [num |-> 100 * (deltaTotal - deltaIdle), den |-> deltaTotal]
            ELSE Zero

(* host.go 27-69: the metric, the error and the collector afterwards *)
Collect(h, reads) ==
    IF reads.cpu.err # NoError
    THEN [err |-> reads.cpu.err, host |-> h, metric |-> ZeroMetric]
    ELSE
      LET memOK == reads.mem.err = NoError /\ reads.mem.total > 0
      IN [err |-> NoError,
          host |-> [prevCPU |-> << [total |-> reads.cpu.total, idle |-> reads.cpu.idle] >>],
          metric |->
            [ts |-> now,
             cpu_pct |-> CPUPct(h.prevCPU, reads.cpu.total, reads.cpu.idle),
             mem_total |-> IF memOK THEN reads.mem.total ELSE 0,
             mem_used |-> IF memOK THEN Sub(reads.mem.total, reads.mem.available) ELSE 0,
             net_rx |-> IF reads.net.err = NoError THEN reads.net.rx ELSE 0,
             net_tx |-> IF reads.net.err = NoError THEN reads.net.tx ELSE 0,
             disk_total |-> IF reads.disk.err = NoError THEN reads.disk.total ELSE 0,
             disk_used |-> IF reads.disk.err = NoError THEN reads.disk.used ELSE 0,
             load1 |-> IF reads.load.err = NoError THEN reads.load.l1 ELSE 0,
             load5 |-> IF reads.load.err = NoError THEN reads.load.l5 ELSE 0,
             load15 |-> IF reads.load.err = NoError THEN reads.load.l15 ELSE 0,
             uptime_sec |-> IF reads.uptime.err = NoError THEN reads.uptime.sec ELSE 0]]

(* app.js 173-184: the compose service label names the service *)
inferServiceName(id) == IF id = "c1" THEN "svcA" ELSE "svcB"

(* One entry of the container listing, with the call that fails for it. *)
ContainerFaults == {"none", "inspect", "stats"}

Summary(id, fault) ==
    [id |-> id, service |-> inferServiceName(id), state |-> "running",
     restart_count |-> 0, fault |-> fault]

Summaries == {Summary(id, f) : id \in ContainerIDs, f \in ContainerFaults}

Listings ==
    {<<>>} \cup {<<a>> : a \in Summaries}
           \cup {p \in Summaries \X Summaries : p[1].id # p[2].id}

(* repo.go 29-44 on the tables db *)
upsertServiceAndContainer(db, svc, id, status, restartCount) ==
    LET row == [id |-> id, service_id |-> svc, status |-> status,
                last_seen_at |-> now, restart_count |-> restartCount]
        has == \E i \in 1..Len(db.containers) : db.containers[i].id = id
        at  == CHOOSE i \in 1..Len(db.containers) : db.containers[i].id = id
    IN [db EXCEPT
          !.services[svc] =
              IF @ = NoRow
              THEN [state |-> "row", first_seen_at |-> now, last_seen_at |-> now,
                    status |-> status]
              ELSE [@ EXCEPT !.last_seen_at = now, !.status = status],
          !.containers = IF has THEN [@ EXCEPT ![at] = row] ELSE Append(@, row)]

(* repo.go 46-60 on the rows of the container table *)
markMissingContainers(rows, seenIDs) ==
    [i \in 1..Len(rows) |->
        IF (seenIDs = {} \/ rows[i].id \notin seenIDs) /\ rows[i].status # "missing"
        THEN [rows[i] EXCEPT !.status = "missing"]
        ELSE rows[i]]

Seen_OnlyCollected(listed) ==
    {listed[i].id : i \in {k \in 1..Len(listed) : listed[k].fault = "none"}}

(* app.js 137-138: every listed id is seen, before any call for it *)
Seen(listed) == {listed[i].id : i \in 1..Len(listed)}

(* app.js 137-169: the loop over the listing, from entry i on *)
RECURSIVE TickLoop(_, _, _)
TickLoop(db, listed, i) ==
    IF i > Len(listed) THEN db
    ELSE LET c == listed[i]
             up == upsertServiceAndContainer(db, c.service, c.id, c.state,
                                             c.restart_count)
         IN IF c.fault = "inspect" THEN TickLoop(db, listed, i + 1)
            ELSE IF c.fault = "stats" THEN TickLoop(up, listed, i + 1)
            ELSE TickLoop([up EXCEPT !.container_metrics =
                               Append(@, [ts |-> now, container_id |-> c.id])],
                          listed, i + 1)

(* app.js 121-173, the repository calls succeeding *)
CollectorTick(reads, listErr, listed) ==
    /\ eval.pc = "idle"
    /\ collector.ticks < MaxTicks
    /\ LET c   == Collect(collector.host, reads)
           db0 == [services |-> services, containers |-> containers,
                   container_metrics |-> container_metrics]
           db1 == IF listErr # NoError THEN db0
                  ELSE [TickLoop(db0, listed, 1) EXCEPT
                           !.containers = markMissingContainers(@, Seen(listed))]
       IN /\ collector' = [host |-> c.host, ticks |-> collector.ticks + 1]
          /\ host_metrics' = IF c.err = NoError THEN Append(host_metrics, c.metric)
                             ELSE host_metrics
          /\ services' = db1.services
          /\ containers' = db1.containers
          /\ container_metrics' = db1.container_metrics
          /\ lastCall' = [kind |-> "Tick", reads |-> reads, collected |-> c,
                          listErr |-> listErr, listed |-> listed]
    /\ UNCHANGED <<ingestor, contexts, worker, run, notify, now, rules, logs, repoVars, sent,
                   engineMaps, eval, evalCount, writes, atBegin, sameList>>

(* The readings of a tick: all six read, one of them failing, or all      *)
(* failing; the CPU counters advance or stand still.                       *)
FailingSets == {{}} \cup {{s} : s \in SubSamples} \cup {SubSamples}
Readings == {Reading(f, t, t \div 2) : f \in FailingSets, t \in {4, 8}}

InitSample == InitWith({{}}, {0}, {0})

NextSample ==
    \/ Tick
    \/ \E reads \in Readings, listErr \in ListErrors :
          CollectorTick(reads, listErr, << Summary("c1", "none") >>)

SpecSample == InitSample /\ [][NextSample]_vars

InitListing == InitWith({{}}, {0}, {0})

NextListing ==
    \/ Tick
    \/ \E listErr \in ListErrors, listed \in Listings :
          CollectorTick(Reading({}, 4, 2), listErr, listed)

SpecListing == InitListing /\ [][NextListing]_vars

(* A step of the metrics tick. *)
TickStep == collector'.ticks # collector.ticks

Populated(r, m) ==
    /\ r.mem.err = NoError =>
          m.mem_total = r.mem.total /\ m.mem_used = r.mem.total - r.mem.available
    /\ r.net.err = NoError => m.net_rx = r.net.rx /\ m.net_tx = r.net.tx
    /\ r.disk.err = NoError =>
          m.disk_total = r.disk.total /\ m.disk_used = r.disk.used
    /\ r.load.err = NoError =>
          m.load1 = r.load.l1 /\ m.load5 = r.load.l5 /\ m.load15 = r.load.l15
    /\ r.uptime.err = NoError => m.uptime_sec = r.uptime.sec

Stored(m) == m.ts = now /\ host_metrics' = Append(host_metrics, m)

(* C24: whichever sub-sample fails, the metric returned by Collect holds   *)
(* every other field that was read, and the tick stores that metric.       *)
C24_SubSamplesIsolated ==
    [][TickStep =>
         /\ Populated(lastCall'.reads, lastCall'.collected.metric)
         /\ Stored(lastCall'.collected.metric)]_vars

(* When the CPU counters are read, every field that was read is in the     *)
(* metric and the metric is stored.                                        *)
IsolatedWhenCPURead ==
    [][TickStep /\ lastCall'.reads.cpu.err = NoError =>
         /\ Populated(lastCall'.reads, lastCall'.collected.metric)
         /\ Stored(lastCall'.collected.metric)]_vars

(* When reading the CPU counters fails, Collect returns the zero metric    *)
(* with the error and the tick stores nothing.                             *)
CPUFailureDropsSample ==
    [][TickStep /\ lastCall'.reads.cpu.err # NoError =>
         /\ lastCall'.collected.metric = ZeroMetric
         /\ lastCall'.collected.err # NoError
         /\ host_metrics' = host_metrics]_vars

RowOf(rows, id) == {rows[i] : i \in {k \in 1..Len(rows) : rows[k].id = id}}

NewMetrics(id) ==
    Cardinality({i \in (Len(container_metrics) + 1)..Len(container_metrics') :
                    container_metrics'[i].container_id = id})

(* C25: a failed listing changes no container row and writes no metric;    *)
(* otherwise every listed container without a failure is upserted and      *)
(* gets one metric row, a container whose inspect or stats call failed     *)
(* gets no metric row and is not marked missing, and the others are.       *)
C25_FailuresSkipOneContainer ==
    [][TickStep =>
         IF lastCall'.listErr # NoError
         THEN /\ containers' = containers
              /\ services' = services
              /\ container_metrics' = container_metrics
         ELSE LET listed == lastCall'.listed
              IN /\ \A i \in 1..Len(listed) :
                       LET c == listed[i]
                       IN /\ c.fault = "none" =>
                                /\ RowOf(containers', c.id) =
                                      {[id |-> c.id, service_id |-> c.service,
                                        status |-> c.state, last_seen_at |-> now,
                                        restart_count |-> c.restart_count]}
                                /\ NewMetrics(c.id) = 1
                          /\ c.fault # "none" =>
                                /\ NewMetrics(c.id) = 0
                                /\ \A r \in RowOf(containers', c.id) :
                                       r.status = "missing" =>
                                          \E q \in RowOf(containers, c.id) :
                                             q.status = "missing"
                          /\ c.fault = "inspect" =>
                                RowOf(containers', c.id) = RowOf(containers, c.id)
                 /\ \A i \in 1..Len(containers') :
                       containers'[i].id \notin Seen(listed) =>
                          containers'[i].status = "missing"]_vars

(* A tick listed two stored containers, the inspect call failed for one   *)
(* and the other was collected.                                           *)
C25_Witness ==
    /\ lastCall.kind = "Tick"
    /\ lastCall.listErr = NoError
    /\ Len(lastCall.listed) = 2
    /\ \E i, j \in 1..2 :
          /\ lastCall.listed[i].fault = "inspect"
          /\ lastCall.listed[j].fault = "none"
          /\ \E r \in RowOf(containers, lastCall.listed[i].id) :
                 r.status = "running" /\ r.last_seen_at < now
          /\ \E r \in RowOf(containers, lastCall.listed[j].id) :
                 r.last_seen_at = now

(* A listing failed while containers were stored as running. *)
ListingFailed ==
    /\ lastCall.kind = "Tick"
    /\ lastCall.listErr # NoError
    /\ \E i \in 1..Len(containers) : containers[i].status = "running"

----------------------------------------------------------------------------
(* The log queries: buildLogFilters, QueryLogs and GroupLogs (repo.go      *)
(* 194-283) over tables filled as in repo_test.go 11-25.  A message and a  *)
(* search text are sequences of characters.                                *)

(* strings.ToUpper and strings.ToLower on the filter values of the model *)
ToUpper(s) ==
    CASE s = "error" -> "ERROR"
      [] s = "Error" -> "ERROR"
      [] s = "warn"  -> "WARN"
      [] OTHER       -> s

ToLower(s) ==
    CASE s = "STDERR" -> "stderr"
      [] s = "StdOut" -> "stdout"
      [] OTHER        -> s

(* SQLite LIKE: % matches any run of characters, _ any one character, and *)
(* ASCII letters match in either case.                                    *)
Fold(c) ==
    CASE c = "A" -> "a"
      [] c = "B" -> "b"
      [] OTHER   -> c

RECURSIVE Like(_, _)
Like(pattern, text) ==
    IF pattern = <<>> THEN text = <<>>
    ELSE IF Head(pattern) = "%"
         THEN Like(Tail(pattern), text) \/ (text # <<>> /\ Like(pattern, Tail(text)))
         ELSE /\ text # <<>>
              /\ (Head(pattern) = "_" \/ Fold(Head(pattern)) = Fold(Head(text)))
              /\ Like(Tail(pattern), Tail(text))

(* repo.go 255-283: the clauses joined by AND; an optional time is a      *)
(* sequence of at most one time.                                          *)
buildLogFilters(e, serviceID, q, level, stream, from, to) ==
    /\ serviceID # "" => e.service_id = serviceID
    /\ level # "" => e.level = ToUpper(level)
    /\ stream # "" => e.stream = ToLower(stream)
    /\ q # <<>> => Like(<<"%">> \o q \o <<"%">>, e.message)
    /\ from # <<>> => e.ts >= from[1]
    /\ to # <<>> => e.ts <= to[1]

Filtered(p) ==
    {i \in 1..Len(logs) :
        buildLogFilters(logs[i], p.serviceID, p.q, p.level, p.stream, p.from, p.to)}

(* repo.go 196-198 *)
QueryLimit(limit) == IF limit <= 0 \/ limit > QueryHardMax THEN QueryDefault ELSE limit

(* repo.go 200: ORDER BY ts DESC LIMIT ?, as sequences of row ids.  Rows   *)
(* of equal ts come in any order, and any of them may fall to the limit.  *)
QueryRows(p) ==
    LET m == Filtered(p)
        n == Min(QueryLimit(p.limit), Cardinality(m))
    IN {s \in [1..n -> m] :
          /\ \A a, b \in 1..n : a < b => s[a] # s[b] /\ logs[s[a]].ts >= logs[s[b]].ts
          /\ \A i \in m : \A a \in 1..n :
                (\A b \in 1..n : s[b] # i) => logs[i].ts <= logs[s[a]].ts}

(* repo.go 194-215 *)
QueryLogs(p) ==
    /\ \E s \in QueryRows(p) :
          lastCall' = [kind |-> "QueryLogs", params |-> p, rows |-> s,
                       result |-> [k \in 1..Len(s) |-> logs[s[k]]], err |-> NoError]
    /\ UNCHANGED <<procs, now, rules, container_metrics, logs, services, containers,
                   host_metrics, repoVars, sent, engineMaps, eval, evalCount, writes,
                   atBegin, sameList>>

(* repo.go 218-228 *)
GroupColumns == {"service", "level", "stream"}

Column(groupBy, e) ==
    CASE groupBy = "service" -> e.service_id
      [] groupBy = "level"   -> e.level
      [] groupBy = "stream"  -> e.stream

(* repo.go 231-233 *)
GroupLimit(limit) == IF limit <= 0 \/ limit > GroupHardMax THEN GroupDefault ELSE limit

(* The keys of the model in the byte order of SQLite's BINARY collation. *)
KeyOrder == <<"ERROR", "INFO", "WARN", "stderr", "stdout", "svcA", "svcB">>

KeyRank(k) == CHOOSE i \in 1..Len(KeyOrder) : KeyOrder[i] = k

Before_KeyOnly(a, b) == KeyRank(a.key) < KeyRank(b.key)

(* repo.go 236: ORDER BY count DESC, group_key ASC *)
Before(a, b) ==
    a.count > b.count \/ (a.count = b.count /\ KeyRank(a.key) < KeyRank(b.key))

(* GROUP BY column, counting the filtered rows of each key *)
Groups(groupBy, p) ==
    LET m == Filtered(p)
    IN {[key |-> k, count |-> Cardinality({i \in m : Column(groupBy, logs[i]) = k})] :
            k \in {Column(groupBy, logs[i]) : i \in m}}

RECURSIVE Ordered(_)
Ordered(rows) ==
    IF rows = {} THEN <<>>
    ELSE LET first == CHOOSE a \in rows : \A b \in rows \ {a} : Before(a, b)
         IN <<first>> \o Ordered(rows \ {first})

(* repo.go 217-253 *)
GroupLogs(groupBy, p) ==
    /\ lastCall' =
          IF groupBy \notin GroupColumns
          THEN [kind |-> "GroupLogs", groupBy |-> groupBy, params |-> p,
                result |-> <<>>, err |-> "unsupported group_by"]
          ELSE LET all == Ordered(Groups(groupBy, p))
               IN [kind |-> "GroupLogs", groupBy |-> groupBy, params |-> p,
                   result |-> SubSeq(all, 1, Min(GroupLimit(p.limit), Len(all))),
                   err |-> NoError]
    /\ UNCHANGED <<procs, now, rules, container_metrics, logs, services, containers,
                   host_metrics, repoVars, sent, engineMaps, eval, evalCount, writes,
                   atBegin, sameList>>

(* repo_test.go 17-21: entries with explicit times, levels as inferLevel  *)
(* gives them and streams as the parser names them.                       *)
LogSamples ==
    { [ts |-> 1, service_id |-> "svcA", container_id |-> "c1", level |-> "INFO",
       stream |-> "stdout", message |-> <<"a", "b">>],
      [ts |-> 2, service_id |-> "svcA", container_id |-> "c1", level |-> "ERROR",
       stream |-> "stderr", message |-> <<"a", "_">>],
      [ts |-> 2, service_id |-> "svcB", container_id |-> "c2", level |-> "ERROR",
       stream |-> "stdout", message |-> <<"B">>],
      [ts |-> 3, service_id |-> "svcA", container_id |-> "c1", level |-> "WARN",
       stream |-> "stderr", message |-> <<"b", "a">>] }

(* repo_test.go 14-15 *)
seedContainer ==
    \/ UpsertServiceAndContainer("svcA", "c1", "running", 0)
    \/ UpsertServiceAndContainer("svcB", "c2", "running", 0)

(* A query reads and writes nothing and its result depends on the tables *)
(* alone: the tables are filled first and then one query is made.        *)
Queried == lastCall.kind \in {"QueryLogs", "GroupLogs"}

SeedLogs ==
    /\ ~Queried
    /\ \E e \in LogSamples : InsertLogsUpTo(<<e>>, MaxRows)

QueryTexts == {<<>>, <<"a">>, <<"B">>, <<"_">>}

QueryParams ==
    [serviceID : {"", "svcA"}, q : QueryTexts, level : {"", "error"},
     stream : {"", "STDERR"}, from : {<<>>, <<2>>}, to : {<<>>, <<2>>},
     limit : {0, 1, QueryHardMax + 1}]

GroupParams ==
    [serviceID : {"", "svcA"}, q : {<<>>, <<"a">>}, level : {"", "error"},
     stream : {""}, from : {<<>>, <<2>>}, to : {<<>>},
     limit : {0, 1, 2, GroupHardMax + 1}]

Queries == ~Queried /\ \E p \in QueryParams : QueryLogs(p)

GroupQueries ==
    /\ ~Queried
    /\ \E g \in GroupColumns \cup {"container", ""}, p \in GroupParams : GroupLogs(g, p)

InitQuery == InitWith({{}}, {0}, {0})

NextQuery ==
    \/ seedContainer
    \/ SeedLogs
    \/ Queries

SpecQuery == InitQuery /\ [][NextQuery]_vars

InitGroup == InitWith({{}}, {0}, {0})

NextGroup ==
    \/ seedContainer
    \/ SeedLogs
    \/ GroupQueries

SpecGroup == InitGroup /\ [][NextGroup]_vars

(* text holds q as a run of consecutive characters *)
Contains(text, q) ==
    \E i \in 1..(Len(text) - Len(q) + 1) : SubSeq(text, i, i + Len(q) - 1) = q

FoldAll(text) == [i \in 1..Len(text) |-> Fold(text[i])]

(* The filters as the claim reads them. *)
Satisfies(e, p) ==
    /\ p.serviceID # "" => e.service_id = p.serviceID
    /\ p.q # <<>> => Contains(e.message, p.q)
    /\ p.level # "" => ToUpper(e.level) = ToUpper(p.level)
    /\ p.stream # "" => ToLower(e.stream) = ToLower(p.stream)
    /\ p.from # <<>> => e.ts >= p.from[1]
    /\ p.to # <<>> => e.ts <= p.to[1]

(* The rows `rows` are the first up to `cap` of the rows `want`, newest   *)
(* first.                                                                 *)
NewestOf(rows, want, cap) ==
    /\ Range(rows) \subseteq want
    /\ \A a, b \in 1..Len(rows) :
          a < b => rows[a] # rows[b] /\ logs[rows[a]].ts >= logs[rows[b]].ts
    /\ Len(rows) = Min(cap, Cardinality(want))
    /\ \A i \in want \ Range(rows) : \A a \in 1..Len(rows) : logs[i].ts <= logs[rows[a]].ts

(* C26: the result of QueryLogs is the entries satisfying all the supplied *)
(* filters, the message filter being that the message contains q, newest  *)
(* first, cut to the limit (the default when the limit is not positive)   *)
(* and never longer than the hard maximum.                                *)
C26_QueryLogsExact ==
    lastCall.kind = "QueryLogs" =>
        LET p == lastCall.params
        IN /\ Len(lastCall.rows) <= QueryHardMax
           /\ NewestOf(lastCall.rows, {i \in 1..Len(logs) : Satisfies(logs[i], p)},
                       IF p.limit <= 0 \/ p.limit > QueryHardMax THEN QueryDefault
                       ELSE p.limit)

(* For a search text without % and _ the result is the entries satisfying *)
(* all the filters, the message containing q in either case of its        *)
(* letters.                                                               *)
QueryLogsExactWithoutWildcards ==
    lastCall.kind = "QueryLogs" /\ (\A k \in 1..Len(lastCall.params.q) :
                                      lastCall.params.q[k] \notin {"%", "_"}) =>
        LET p == lastCall.params
        IN /\ Len(lastCall.rows) <= QueryHardMax
           /\ NewestOf(lastCall.rows,
                       {i \in 1..Len(logs) :
                           Satisfies([logs[i] EXCEPT !.message = FoldAll(@)],
                                     [p EXCEPT !.q = FoldAll(@)])},
                       IF p.limit <= 0 \/ p.limit > QueryHardMax THEN QueryDefault
                       ELSE p.limit)

(* A search for _ returned an entry without that character. *)
WildcardMatched ==
    /\ lastCall.kind = "QueryLogs"
    /\ lastCall.params.q = <<"_">>
    /\ \E k \in 1..Len(lastCall.result) : ~Contains(lastCall.result[k].message, <<"_">>)

(* Three filtered rows were cut to the limit of one. *)
QueryCut ==
    /\ lastCall.kind = "QueryLogs"
    /\ lastCall.params.limit = 1
    /\ Len(lastCall.rows) = 1
    /\ Cardinality(Filtered(lastCall.params)) = MaxRows

Keys(groupBy, p) == {Column(groupBy, logs[i]) : i \in Filtered(p)}

Counted(groupBy, p, row) ==
    /\ row.key \in Keys(groupBy, p)
    /\ row.count = Cardinality({i \in Filtered(p) : Column(groupBy, logs[i]) = row.key})

Follows(a, b) ==
    a.count < b.count \/ (a.count = b.count /\ KeyRank(a.key) > KeyRank(b.key))

Rejected ==
    lastCall.groupBy \notin {"service", "level", "stream"} =>
        lastCall.err # NoError /\ lastCall.result = <<>>

(* C27 as stated: a row for every distinct key of the filtered entries,   *)
(* with its count, by count descending and then key ascending; any other  *)
(* groupBy is an error without rows.                                      *)
C27_OneRowPerKey ==
    lastCall.kind = "GroupLogs" =>
        /\ Rejected
        /\ lastCall.groupBy \in {"service", "level", "stream"} =>
              LET r == lastCall.result
                  p == lastCall.params
              IN /\ lastCall.err = NoError
                 /\ \A k \in 1..Len(r) : Counted(lastCall.groupBy, p, r[k])
                 /\ \A a, b \in 1..Len(r) : a < b => Follows(r[b], r[a])
                 /\ {r[k].key : k \in 1..Len(r)} = Keys(lastCall.groupBy, p)

(* C27 with the row limit: the rows are the first `limit` (100 when the    *)
(* given limit is not positive or above 500) of the rows of all distinct  *)
(* keys in that order.                                                    *)
C27_FirstRowsPerKey ==
    lastCall.kind = "GroupLogs" =>
        /\ Rejected
        /\ lastCall.groupBy \in {"service", "level", "stream"} =>
              LET r == lastCall.result
                  p == lastCall.params
                  keys == Keys(lastCall.groupBy, p)
                  cap == IF p.limit <= 0 \/ p.limit > GroupHardMax THEN GroupDefault
                         ELSE p.limit
              IN /\ lastCall.err = NoError
                 /\ \A k \in 1..Len(r) : Counted(lastCall.groupBy, p, r[k])
                 /\ \A a, b \in 1..Len(r) : a < b => Follows(r[b], r[a])
                 /\ Len(r) = Min(cap, Cardinality(keys))
                 /\ \A key \in keys \ {r[k].key : k \in 1..Len(r)} :
                       \A k \in 1..Len(r) :
                          Follows([key |-> key,
                                   count |-> Cardinality({i \in Filtered(p) :
                                       Column(lastCall.groupBy, logs[i]) = key})],
                                  r[k])

(* Two keys were grouped and the later one in key order, having more      *)
(* entries, came first.                                                   *)
C27_Witness ==
    /\ lastCall.kind = "GroupLogs"
    /\ lastCall.err = NoError
    /\ Len(lastCall.result) = 2
    /\ lastCall.result[1].count > lastCall.result[2].count
    /\ KeyRank(lastCall.result[1].key) > KeyRank(lastCall.result[2].key)

(* A limit of one returned one of several keys. *)
GroupCut ==
    /\ lastCall.kind = "GroupLogs"
    /\ lastCall.err = NoError
    /\ lastCall.params.limit = 1
    /\ Len(lastCall.result) = 1
    /\ Cardinality(Keys(lastCall.groupBy, lastCall.params)) > 1

(* A groupBy outside the three columns was refused. *)
GroupRefused ==
    /\ lastCall.kind = "GroupLogs"
    /\ lastCall.groupBy = "container"
    /\ lastCall.err # NoError
    /\ logs # <<>>

(* The number of letters in a sequence of bytes. *)
Letters(b) == Cardinality({i \in 1..Len(b) : b[i] = LetterA})

RECURSIVE LettersOf(_)
LettersOf(entries) ==
    IF entries = <<>> THEN 0
    ELSE Letters(Head(entries).message) + LettersOf(Tail(entries))

(* C31: the error of ParseDockerStream is nil unless the reader ended     *)
(* with an error; a stream that ends cleanly, wherever it ends, is parsed *)
(* without an error and no letter of it is dropped.                       *)
C31_OnlyReaderErrors ==
    lastCall.kind = "ParseDockerStream" =>
        /\ lastCall.result.err # NoError => lastCall.input.readErr # NoError
        /\ lastCall.input.readErr = NoError =>
              LettersOf(lastCall.result.entries) = Letters(lastCall.input.bytes)

(* The bytes of a stream that was cut after the last whole frame. *)
Remainder(inp) ==
    LET ends == {Len(EncodeFrames(SubSeq(inp.frames, 1, k))) : k \in 0..Len(inp.frames)}
        last == CHOOSE e \in ends : e <= Len(inp.bytes) /\
                       \A f \in ends : f <= Len(inp.bytes) => f <= e
    IN Len(inp.bytes) - last

CutInPayload(inp) == inp.form = "cut" /\ Remainder(inp) >= 8

(* The error is not nil exactly when the reader ended with an error or    *)
(* the stream ended inside the payload of a frame; a stream that ends     *)
(* cleanly elsewhere, or holds a byte that begins no header, loses no     *)
(* letter.                                                                *)
ErrorsFromReaderOrCutPayload ==
    lastCall.kind = "ParseDockerStream" =>
        LET inp == lastCall.input
        IN /\ lastCall.result.err # NoError
                <=> (inp.readErr # NoError \/ CutInPayload(inp))
           /\ inp.readErr = NoError /\ ~CutInPayload(inp) =>
                 LettersOf(lastCall.result.entries) = Letters(inp.bytes)

(* A stream that ended cleanly inside the second line of a frame was      *)
(* refused with the letters read so far.                                  *)
CutPayloadRefused ==
    /\ lastCall.kind = "ParseDockerStream"
    /\ lastCall.input.readErr = NoError
    /\ lastCall.result.err = "unexpected EOF"
    /\ Letters(lastCall.input.bytes) > LettersOf(lastCall.result.entries)

(* A stream with a byte that begins no header, after a whole frame, was   *)
(* parsed as lines.                                                       *)
GarbledParsed ==
    /\ lastCall.kind = "ParseDockerStream"
    /\ lastCall.input.form = "garbled"
    /\ lastCall.input.readErr = NoError
    /\ Len(lastCall.input.frames) = 1
    /\ Len(lastCall.result.entries) >= 2
    /\ lastCall.result.err = NoError

(* A tick of driver d is due: the loop runs, the ticker of d has fired    *)
(* and no call of d is in progress.                                       *)
Due(d) ==
    /\ run # NotRunning
    /\ run.pc = "select"
    /\ run.ticks[d]
    /\ run.running[d] = 0
    /\ Len(run.calls[d]) < MaxCalls

(* C32: a due tick of a driver can start whatever the other drivers are   *)
(* doing.                                                                 *)
C32_DriversIndependent == \A d \in Drivers : Due(d) => ENABLED SelectDriver(d)

(* A due tick starts exactly when no call of any driver is in progress. *)
DueTickWaitsForReturn ==
    \A d \in Drivers : Due(d) => (ENABLED SelectDriver(d) <=> Waiting)

(* The metrics tick is due while a rule evaluation is in progress. *)
TickBehindEvaluate ==
    /\ Due("collector.Tick")
    /\ run.running["alerts.Evaluate"] = 1

----------------------------------------------------------------------------
(* The host rules before the collector has stored its first sample: the    *)
(* engine evaluates from its start, the first host row arrives later.      *)
BusySample ==
    [cpu_pct |-> 95, mem_used |-> 19, mem_total |-> 20, disk_used |-> 9, disk_total |-> 10]

FirstMetrics == InsertHostMetric(BusySample)

InitNoMetric == InitWith({{1, 2, 3}, {1, 3}, {2}}, {0}, {0})

NextNoMetric ==
    \/ Tick
    \/ EvaluateBegin(MaxEvals)
    \/ EvalStep(NoFaults, SendOutcomes)
    \/ FirstMetrics

SpecNoMetric == InitNoMetric /\ [][NextNoMetric]_vars

HostRules(from, to) ==
    {i \in RuleIDs : from <= i /\ i <= to /\ rules[i].enabled
                                        /\ rules[i].target_type = "host"}

(* The step starts or continues the loop of one Evaluate call and visits   *)
(* the next enabled host rule, none skipped and none a second time.        *)
NextHostRule ==
    LET from == IF eval.pc = "idle" THEN 1 ELSE eval.ri + 1
    IN IF eval'.pc = "loop"
       THEN eval'.ri \in HostRules(from, Len(rules))
            /\ HostRules(from, eval'.ri - 1) = {}
       ELSE HostRules(from, Len(rules)) = {}

(* C33: while no host metric row has been stored, every Evaluate call      *)
(* evaluates each enabled host rule exactly once, with target fingerprint  *)
(* "host" and value 0; a rule with operator > or >= and a positive         *)
(* threshold stays OK and no alert is created.                             *)
C33_NoMetricEvaluatesZero ==
    [][host_metrics = <<>> =>
        /\ (eval.pc = "idle" /\ evalCount' # evalCount) => NextHostRule
        /\ Called =>
            /\ NextHostRule
            /\ lastCall'.rule = eval.ri
            /\ lastCall'.target = "host"
            /\ lastCall'.value = 0
            /\ (rules[eval.ri].operator \in {">", ">="} /\ rules[eval.ri].threshold > 0)
                  => /\ Quiet
                     /\ alerts' = <<>>
                     /\ StateName(alert_states'[<<eval.ri, "host">>]) = "OK"]_vars

(* The last host rule evaluated against 0 in a second Evaluate call with   *)
(* the table still empty.                                                  *)
C33_Witness ==
    /\ host_metrics = <<>>
    /\ evalCount = 2
    /\ eval.pc = "idle"
    /\ IsCall /\ lastCall.rule = 3 /\ lastCall.target = "host" /\ lastCall.value = 0
    /\ alerts = <<>>

(* Once the busy sample is stored the same rule fires. *)
FiresOnceStored ==
    /\ host_metrics # <<>>
    /\ IsCall /\ lastCall.rule = 3 /\ lastCall.value = 90
    /\ PairFiring(alerts, 3, "host") # {}

----------------------------------------------------------------------------
(* notifier.Telegram shared by the engine, whose goroutine calls Send, and *)
(* the web server, whose handler goroutine calls Update after saving the   *)
(* settings (part_004 233-250).  No lock guards the two fields: a step is  *)
(* one read or one write of a field.  posted lists the requests made.      *)
Credentials == {<<"token-1", "chat-1">>, <<"token-2", "chat-2">>}

NotifyUnchanged ==
    UNCHANGED <<ingestor, contexts, worker, run, collector, now, rules, services,
                containers, host_metrics, container_metrics, logs, repoVars, sent,
                engineMaps, eval, history>>

(* telegram.go 27-29 *)
Enabled == notify.Token # "" /\ notify.ChatID # ""

(* telegram.go 36-39: the call and its Enabled test *)
SendBegin ==
    /\ notify.send.pc = "none"
    /\ Len(notify.posted) < MaxSends
    /\ notify' = IF Enabled
                 THEN [notify EXCEPT !.send = [pc |-> "payload"]]
                 ELSE [notify EXCEPT !.posted = Append(@,
                            [err |-> "telegram not configured"])]
    /\ NotifyUnchanged

(* telegram.go 40-41: the payload carries t.ChatID *)
SendPayload ==
    /\ notify.send.pc = "payload"
    /\ notify' = [notify EXCEPT !.send = [pc |-> "url", chat_id |-> notify.ChatID]]
    /\ NotifyUnchanged

(* telegram.go 42-57: the URL carries t.Token; the request is posted *)
SendPost ==
    /\ notify.send.pc = "url"
    /\ notify' = [notify EXCEPT
            !.send = [pc |-> "none"],
            !.posted = Append(@, [err |-> NoError, token |-> notify.Token,
                                  chat_id |-> notify.send.chat_id])]
    /\ NotifyUnchanged

(* telegram.go 31-32: Update is called and writes t.Token *)
UpdateToken(token, chatID) ==
    /\ notify.update.pc = "none"
    /\ notify.updates < MaxUpdates
    /\ notify' = [notify EXCEPT !.Token = token,
                                !.update = [pc |-> "chat", chatID |-> chatID],
                                !.updates = @ + 1]
    /\ NotifyUnchanged

(* telegram.go 33: t.ChatID is written and Update returns *)
UpdateChatID ==
    /\ notify.update.pc = "chat"
    /\ notify' = [notify EXCEPT !.ChatID = notify.update.chatID,
                                !.update = [pc |-> "none"]]
    /\ NotifyUnchanged

(* part_004 233-250: the settings saved carry a token and a chat id *)
handleSettingsTelegram == \E c \in Credentials : UpdateToken(c[1], c[2])

InitTelegram ==
    /\ InitStore({{}}, {0}, {0})
    /\ ingestor = NewIngestor(FALSE, "")
    /\ contexts = [id \in DockerIDs |-> "none"]
    /\ worker = NoWorker
    /\ run = NotRunning
    /\ collector = NewService
    /\ \E c \in Credentials \cup {<<"", "">>} : notify = NewTelegram(c[1], c[2])
    /\ lastCall = NoCall

NextTelegram ==
    \/ SendBegin
    \/ SendPayload
    \/ SendPost
    \/ handleSettingsTelegram
    \/ UpdateChatID

SpecTelegram == InitTelegram /\ [][NextTelegram]_vars

Posted(i) == <<notify.posted[i].token, notify.posted[i].chat_id>>

Requests == {i \in 1..Len(notify.posted) : notify.posted[i].err = NoError}

(* C34: a Send concurrent with Update(token, chatID) uses the old pair or  *)
(* the new pair, never a mixed one: every request posted carries a token   *)
(* and a chat id that were configured together.                            *)
C34_NeverMixedPair == \A i \in Requests : Posted(i) \in Credentials

(* What holds: each half of a request is a configured value. *)
PostedHalvesConfigured ==
    \A i \in Requests :
        /\ \E c \in Credentials : c[1] = Posted(i)[1]
        /\ \E c \in Credentials : c[2] = Posted(i)[2]

(* A request made with the chat id of one pair and the token of another. *)
MixedPairPosted ==
    \E i \in Requests : Posted(i) = <<"token-2", "chat-1">>

(* A Send with no Update under way or in between posts the pair in force. *)
SendAloneConsistent ==
    [][(notify.send.pc = "url" /\ notify'.send.pc = "none"
            /\ notify.update.pc = "none" /\ notify.send.chat_id = notify.ChatID)
        => <<notify'.posted[Len(notify'.posted)].token,
             notify'.posted[Len(notify'.posted)].chat_id>> \in Credentials]_vars

----------------------------------------------------------------------------
(* The host CPU rule over a database whose writes may fail one at a time:  *)
(* evalTarget ignores the error of every write but CreateAlert's.          *)
InitFaults == InitWith({{1}}, ForChoices, {0})

NextFaults ==
    \/ Tick
    \/ EvaluateBegin(MaxEvals)
    \/ EvalStep(RepoFaults, Delivered)
    \/ HostMetrics

SpecFaults == InitFaults /\ [][NextFaults]_vars

(* C35: in every state reached by Evaluate calls, repository writes        *)
(* allowed to fail individually, each (rule, target) pair has at most one  *)
(* alert row with status "firing".                                         *)
C35_AtMostOneFiring ==
    \A r \in RuleIDs, t \in Targets : Cardinality(PairFiring(alerts, r, t)) <= 1

(* Two firing rows of the host pair, the state row never written. *)
TwoFiringAfterFailedUpsert ==
    /\ Cardinality(PairFiring(alerts, 1, "host")) = 2
    /\ alert_states[<<1, "host">>] = NoRow

(* What holds: a firing row is added only while the pair's state row does  *)
(* not say FIRING.                                                         *)
FiringRowNeedsStateNotFiring ==
    [][\A r \in RuleIDs, t \in Targets :
        Cardinality(PairFiring(alerts', r, t)) > Cardinality(PairFiring(alerts, r, t))
            => StateName(alert_states[<<r, t>>]) # "FIRING"]_vars

----------------------------------------------------------------------------
(* The host CPU rule with a cooldown, evaluated again and again: the       *)
(* rules ticker keeps calling Evaluate and every call runs to its end      *)
(* (app.go 97-111), the clock moves on up to MaxTime.                      *)
InitCooldown == InitWith({{1}}, {0}, {3})

(* The rules ticker never stops: the calls after the first MaxHostEvals   *)
(* are made and no longer counted.                                         *)
EvaluateForEver ==
    EvaluateCounted(MaxHostEvals + 1,
                    IF evalCount < MaxHostEvals THEN evalCount + 1 ELSE MaxHostEvals)

NextCooldown ==
    \/ Tick
    \/ EvaluateForEver
    \/ EvalStep(NoFaults, Delivered)
    \/ HostMetrics

SpecCooldown ==
    /\ InitCooldown /\ [][NextCooldown]_vars
    /\ WF_vars(Tick)
    /\ WF_vars(EvaluateForEver)
    /\ WF_vars(EvalStep(NoFaults, Delivered))

(* The condition of rule 1 holds for the value the engine has read. *)
Holding == compare(MapGet(lastHost, "host_cpu_pct", 0), rules[1].operator,
                   rules[1].threshold)

CooldownElapsed ==
    /\ StateName(alert_states[<<1, "host">>]) = "COOLDOWN"
    /\ now - alert_states[<<1, "host">>].last_fired_ts >= rules[1].cooldown_seconds

Firing ==
    /\ StateName(alert_states[<<1, "host">>]) = "FIRING"
    /\ PairFiring(alerts, 1, "host") # {}

(* C36: a pair whose condition holds at its evaluations eventually         *)
(* reaches FIRING with a firing alert row; in particular a pair in         *)
(* COOLDOWN, evaluated once cooldown_seconds have passed since             *)
(* last_fired_ts with the condition holding, fires.                        *)
C36_CooldownEventuallyFires ==
    (eval.pc = "loop" /\ Holding /\ CooldownElapsed) ~> Firing

(* What holds: an evaluation of a pair in COOLDOWN whose condition holds   *)
(* writes nothing, whatever the time: the pair stays in COOLDOWN until     *)
(* the condition clears.                                                   *)
CooldownKeptWhileHolding ==
    [][(Called /\ Holding /\ StateName(alert_states[<<1, "host">>]) = "COOLDOWN")
        => (Quiet /\ alert_states' = alert_states)]_vars

(* The evaluation made after the cooldown has passed left the pair in      *)
(* COOLDOWN.                                                               *)
StillCooldownAfterElapsed ==
    /\ IsCall /\ lastCall.rule = 1 /\ lastCall.value = 95
    /\ StateName(lastCall.row) = "COOLDOWN"
    /\ lastCall.at - lastCall.row.last_fired_ts >= rules[1].cooldown_seconds
    /\ StateName(alert_states[<<1, "host">>]) = "COOLDOWN"
    /\ eval.pc = "idle"

(* From OK and from PENDING the pair does fire. *)
OtherPathsFire ==
    (eval.pc = "loop" /\ Holding
        /\ StateName(alert_states[<<1, "host">>]) = "OK"
        /\ alert_states[<<1, "host">>] = NoRow) ~> Firing

----------------------------------------------------------------------------
(* C37: while a pair is FIRING and the condition keeps holding, a further  *)
(* evaluation changes nothing for the pair: no alert row, no notification, *)
(* no notification event, and the state row stays as it is (since_ts and   *)
(* last_fired_ts included).                                                *)
C37_FiringIsStable ==
    [][ LET r == rules[lastCall'.rule]
            t == lastCall'.target
        IN (/\ Called
            /\ StateName(alert_states[<<r.id, t>>]) = "FIRING"
            /\ Holds(lastCall'.value, r))
           => /\ Quiet
              /\ alert_states' = alert_states
      ]_vars

(* A second evaluation of the firing pair, a tick later, the value still   *)
(* over the threshold: the one alert row and the state row of the first.   *)
C37_Witness ==
    /\ IsCall
    /\ StateName(lastCall.row) = "FIRING"
    /\ Holds(lastCall.value, rules[lastCall.rule])
    /\ lastCall.at > lastCall.row.last_fired_ts
    /\ alert_states[<<lastCall.rule, lastCall.target>>] = lastCall.row
    /\ Cardinality(PairAlerts(alerts, lastCall.rule, lastCall.target)) = 1

----------------------------------------------------------------------------
(* A container that leaves the listing and comes back: Reconcile cancels   *)
(* its worker and a later Reconcile starts a new one.  The stream fills    *)
(* the channel; the flusher is faster than the clock.  Reappearances are   *)
(* followed while the logs table holds at most MaxLogs rows.               *)
RestartWorker ==
    /\ Cancelled
    /\ Len(logs) <= MaxLogs
    /\ Reconcile({WorkerID}, NoError)

InitRestart == InitWith({{}}, {0}, {0})

NextRestart ==
    \/ StartWorker
    \/ CancelWorker
    \/ RestartWorker
    \/ QuietTick
    \/ WorkerLoop({"stream"}, LongStreams, OneStream)
    \/ WorkerEmit
    \/ WorkerStreamEnd
    \/ QuietFlushLoop("none")

SpecRestart == InitRestart /\ [][NextRestart]_vars

(* runWorker has returned; flushLoop has returned. *)
WorkerStopped == worker # NoWorker /\ worker.pc = "done"
FlusherStopped == worker # NoWorker /\ worker.fpc = "done"

(* The worker waits in the send of emitEntry (parser.go 72) on a full      *)
(* channel whose flusher has returned.                                     *)
BlockedSender ==
    /\ ChannelFull
    /\ worker.pc = "parse"
    /\ FlusherStopped

(* C38: at most one follow worker per container id when a container        *)
(* disappears and reappears: the cancelled worker has stopped reading and  *)
(* emitting before the new worker starts.                                  *)
C38_OneWorkerPerContainer ==
    [][(Cancelled /\ contexts'[WorkerID] = "live") => WorkerStopped]_vars

(* What holds: the map of Reconcile has at most one cancel function per    *)
(* id, so a new worker starts only after the old one was cancelled.        *)
StartsOnlyAfterCancel ==
    [][(worker # NoWorker /\ contexts'[WorkerID] = "live"
            /\ contexts[WorkerID] # "live") => Cancelled]_vars

(* The Reconcile that starts the new worker can run while the cancelled    *)
(* one waits in its send for ever.                                         *)
RestartOverBlockedSender == Cancelled /\ BlockedSender /\ ENABLED RestartWorker

(* One worker from its start to its cancellation and after, its two        *)
(* goroutines scheduled fairly.                                            *)
InitCancel == InitWith({{}}, {0}, {0})

NextCancel ==
    \/ StartWorker
    \/ CancelWorker
    \/ QuietTick
    \/ WorkerLoop({"stream"}, LongStreams, OneStream)
    \/ WorkerEmit
    \/ WorkerStreamEnd
    \/ QuietFlushLoop("none")

SpecCancel ==
    /\ InitCancel /\ [][NextCancel]_vars
    /\ WF_vars(QuietTick)
    /\ WF_vars(WorkerLoop({"stream"}, LongStreams, OneStream))
    /\ WF_vars(WorkerEmit)
    /\ WF_vars(WorkerStreamEnd)
    /\ WF_vars(QuietFlushLoop("none"))

(* C39: after the context of a worker is cancelled, the worker and the     *)
(* flusher both terminate, also when the channel is full and the parser    *)
(* waits in its send at the moment the flusher observes the cancellation.  *)
C39_CancelledWorkerTerminates ==
    (Cancelled /\ BlockedSender) ~> (WorkerStopped /\ FlusherStopped)

(* What holds: nothing changes the worker that waits in its send once the *)
(* flusher has returned.                                                   *)
BlockedSenderStays == [][(Cancelled /\ BlockedSender) => worker' = worker]_vars

(* The worker waiting in its send, the flusher returned. *)
SenderLeftBehind == Cancelled /\ BlockedSender

----------------------------------------------------------------------------
(* The host memory and disk rules over samples whose memory or disk        *)
(* sub-sample failed: Collect leaves the totals of such a row 0            *)
(* (host.go 42-58).                                                        *)
PartialSamples ==
    { [cpu_pct |-> 10, mem_used |-> 0, mem_total |-> 0, disk_used |-> 1, disk_total |-> 4],
      [cpu_pct |-> 10, mem_used |-> 1, mem_total |-> 4, disk_used |-> 0, disk_total |-> 0] }

PartialMetrics == \E m \in {BusySample} \cup PartialSamples : InsertHostMetric(m)

InitPartial == InitWith({{2, 3}}, {0}, {0})

NextPartial ==
    \/ Tick
    \/ EvaluateBegin(MaxEvals)
    \/ EvalStep(NoFaults, Delivered)
    \/ PartialMetrics

SpecPartial == InitPartial /\ [][NextPartial]_vars

(* The value of a host metric key that the row m alone gives: what an      *)
(* engine with an empty lastHost evaluates after reading m.                *)
ValueOfRow(m, key) ==
    CASE key = "host_cpu_pct"  -> m.cpu_pct
      [] key = "host_mem_pct"  -> IF m.mem_total > 0
                                  THEN HostPct(m.mem_used, m.mem_total) ELSE 0
      [] key = "host_disk_pct" -> IF m.disk_total > 0
                                  THEN HostPct(m.disk_used, m.disk_total) ELSE 0
      [] OTHER                 -> 0

(* C40: the value a host rule is evaluated against is derived from the     *)
(* latest stored host metric row; host_cpu_pct, host_mem_pct and           *)
(* host_disk_pct never carry over the value of an older row once a newer   *)
(* row exists, a newer row with memory or disk total 0 included.           *)
C40_ValueFromLatestRow ==
    [][(Called /\ HasHostMetric /\ rules[eval.ri].target_type = "host")
        => lastCall'.value = ValueOfRow(LatestHostMetric, rules[eval.ri].metric_key)]_vars

(* What holds: the value is that of the latest row when that row carries   *)
(* a total for the metric.                                                 *)
Measured(m, key) ==
    CASE key = "host_mem_pct"  -> m.mem_total > 0
      [] key = "host_disk_pct" -> m.disk_total > 0
      [] OTHER                 -> TRUE

ValueFromLatestMeasuredRow ==
    [][(Called /\ HasHostMetric /\ rules[eval.ri].target_type = "host"
            /\ Measured(LatestHostMetric, rules[eval.ri].metric_key))
        => lastCall'.value = ValueOfRow(LatestHostMetric, rules[eval.ri].metric_key)]_vars

(* The memory rule evaluated against the 95 percent of an older row, the   *)
(* latest row having no memory total; the alert it raised.                 *)
StaleMemoryValue ==
    /\ IsCall /\ lastCall.rule = 2 /\ lastCall.value = 95
    /\ HasHostMetric /\ LatestHostMetric.mem_total = 0
    /\ PairFiring(alerts, 2, "host") # {}

====
